---------------------------- MODULE Spec2Model ----------------------------
(***************************************************************************)
(* A state-machine model of src/script.js (the Kurdish City page script).  *)
(* Each controller of the script is modelled by its own group of variables *)
(* and its own specification; all of them share the event loop's clock and *)
(* timer queue.                                                            *)
(***************************************************************************)
EXTENDS Integers, Sequences, FiniteSets, TLC

VARIABLES
    now,          \* the event loop's clock, in milliseconds
    timers,       \* pending setTimeout callbacks: [id, due, kind, arg]
    nextTimerId,  \* the id the next setTimeout returns
    dbWait,       \* debounce: the `wait` argument
    dbTimeout,    \* debounce: the closure variable `timeout` (0: undefined)
    dbCalls,      \* debounce: number of invocations of the wrapper so far
    dbTrace,      \* debounce: observed events, calls and runs of `func`
    konamiCode,   \* EasterEggManager.konamiCode: the key-code buffer
    konInput,     \* the codes received since the previous trigger (observer)
    konFired,     \* whether the latest keydown activated the effect (observer)
    konTriggers,  \* number of activations of the Konami effect (observer)
    konKeys,      \* number of keydown events so far
    konWrong,     \* number of keydown events that broke a partial match
    maxScrollDepth,   \* trackUserInteractions: the closure variable maxScrollDepth
    scrollLog,        \* the depths written by console.log('Scroll Depth:', ...)
    scrolledBack,     \* whether the latest run of the scroll listener computed a
                      \* depth below the recorded maximum (observer)
    windowScrollY,    \* window.scrollY, in px
    scrollTimeout,    \* the closure variable `timeout` of the scroll listener's
                      \* debounce (0: undefined)
    scrollEvents,     \* number of scroll events so far
    loadStartTime,    \* LoadingManager.startTime
    loadOpacity,      \* loadingScreen.style.opacity
    loadDisplay,      \* loadingScreen.style.display
    bodyLoaded,       \* whether document.body has the class 'loaded'
    hideCalls,        \* number of invocations of hide() so far
    fadeLog,          \* for each fade begun: when hide() was invoked, when it began
    serverData,       \* the shared ServerStatus record (uptime in tenths of a percent)
    statusElements,   \* ServerStatusManager.statusElements: which elements exist
    display,          \* the text and class shown by the status elements
    pollPc,           \* the polling callback: "idle", or "fetched" while it awaits
    renderedFrom,     \* the serverData that the latest updateDisplay() read
    manualSince,      \* the fields that manual updates have named since the latest
                      \* successful fetch, with their latest values (observer)
    lastTick,         \* the latest polling tick: when it fired, whether its fetch
                      \* failed, and the record and display it found (observer)
    localStorage,     \* the browser's store: raw key -> item (a string)
    lastOp,           \* the latest StorageManager / ThemeManager call and its outcome
    setStored,        \* per key: the value of the latest set() that returned true,
                      \* unless a remove() or clear() has returned true since;
                      \* marked "maybe" once a clear() has returned false (observer)
    currentTheme,     \* ThemeManager.currentTheme
    dataTheme,        \* the attribute data-theme of the document element
    themeTrail,       \* currentTheme at construction and after each toggle (observer)
    notifications,    \* the banners shown by showNotification so far, in order
    banners,          \* for each of them, the state of its element: sliding in
                      \* (shown), sliding out, or removed from document.body
    bodyFilter,       \* document.body.style.filter
    btnText,          \* per control: its textContent
    btnDisabled,      \* per control: its property `disabled`
    btnBackground,    \* per control: its style.background
    scopes,           \* the invocations that captured a control: what their
                      \* timer callbacks close over, and when they were invoked
    jobs,             \* the microtask queue: continuations of copyServerIP
    awaiting,         \* copyServerIP invocations whose clipboard write is pending:
                      \* for each, the control that triggered it
    textAreas,        \* number of temporary textareas in document.body
    copies,           \* number of clicks that invoked copyServerIP so far
    copyDone,         \* per copyServerIP invocation that has finished: how it
                      \* went and what it left (observer)
    clipboardApi,     \* the browser: how navigator.clipboard.writeText behaves
    clipboardWrites,  \* the browser: whether a write that settles later is done
    execCopy,         \* the browser: what document.execCommand('copy') does
    clipboard,        \* the text on the system clipboard
    connects,         \* number of invocations of connectToServer so far
    connLog,          \* per connectToServer invocation: when, and whether
                      \* window.open returned (observer)
    copyLog,          \* per copyServerIP invocation: when, by which caller, and
                      \* for which connectToServer invocation (observer)
    readyState,       \* document.readyState
    listening,        \* whether the script's DOMContentLoaded listener is registered
    scriptPc,         \* "start" before the script's last statements run, then "evaluated"
    app,              \* the script's variable `app`
    windowApp,        \* the property window.KurdishCityApp
    managers,         \* KurdishCityApp.managers: the names registered, in order
    errorListeners,   \* the window events ErrorManager's listeners are installed for
    initOutcome,      \* the run of KurdishCityApp.init(): which construction threw
                      \* (0: none), after how many of its steps, and whether
                      \* anything left the constructor (observer)
    lastLookup,       \* the latest call through the window handle (observer)
    faultLog,         \* per page-level fault: what the handlers did with it (observer)
    menuActive,       \* whether navMenu has the class 'active' (the menu is open)
    toggleText,       \* mobileToggle.textContent
    scrollRequests,   \* the `top` of the latest window.scrollTo of an anchor click, if any
    navEvents,        \* number of clicks and key presses the navigation has seen
    lastNav,          \* the latest of them, and whether the menu was open before (observer)
    clickCount,       \* EasterEggManager.clickCount
    logoClicks,       \* number of clicks on the logo so far (observer)
    rainbowLog,       \* for each activateRainbowMode(): the number of the click (observer)
    rainbowStyles,    \* number of rainbow <style> elements in document.head
    caught,           \* the catch blocks the latest step entered, in order (observer)
    consoleLog        \* the console entries the latest step wrote: [level, site]

clockVars == <<now, timers, nextTimerId>>
dbVars == <<dbWait, dbTimeout, dbCalls, dbTrace>>
konVars == <<konamiCode, konInput, konFired, konTriggers, konKeys, konWrong, bodyFilter>>
scrollVars == <<maxScrollDepth, scrollLog, scrolledBack, windowScrollY, scrollTimeout,
               scrollEvents>>
loadVars == <<loadStartTime, loadOpacity, loadDisplay, bodyLoaded, hideCalls, fadeLog>>
statusVars == <<serverData, statusElements, display, pollPc, renderedFrom, lastTick,
                manualSince>>
storeVars == <<localStorage, lastOp, setStored>>
themeVars == <<currentTheme, dataTheme, themeTrail>>
noteVars == <<notifications, banners>>
connVars == <<btnText, btnDisabled, btnBackground, scopes, jobs, awaiting,
              clipboard, connects, connLog, copyLog, textAreas, copies, copyDone>>
browserVars == <<clipboardApi, clipboardWrites, execCopy>>
diagVars == <<caught, consoleLog>>
navVars == <<menuActive, toggleText, scrollRequests, navEvents, lastNav>>
logoVars == <<clickCount, logoClicks, rainbowLog, rainbowStyles>>
appVars == <<readyState, listening, scriptPc, app, windowApp, managers,
             errorListeners, initOutcome, lastLookup, faultLog>>
vars == <<clockVars, dbVars, konVars, scrollVars, loadVars, statusVars,
          storeVars, themeVars, noteVars, connVars, browserVars, diagVars,
          appVars, navVars, logoVars>>

\* console.error / console.warn / console.log called from the code of `site`.
ConsoleEntry(level, site) == [level |-> level, site |-> site]

\* A step in which the catch blocks `sites` ran and `entries` were written.
Diagnose(sites, entries) ==
    /\ caught' = sites
    /\ consoleLog' = entries

\* The variables of the controllers a step does not touch.
Frame(active) ==
    /\ IF "clock" \in active THEN TRUE ELSE UNCHANGED clockVars
    /\ IF "debounce" \in active THEN TRUE ELSE UNCHANGED dbVars
    /\ IF "konami" \in active THEN TRUE ELSE UNCHANGED konVars
    /\ IF "scroll" \in active THEN TRUE ELSE UNCHANGED scrollVars
    /\ IF "loading" \in active THEN TRUE ELSE UNCHANGED loadVars
    /\ IF "status" \in active THEN TRUE ELSE UNCHANGED statusVars
    /\ IF "storage" \in active THEN TRUE ELSE UNCHANGED storeVars
    /\ IF "theme" \in active THEN TRUE ELSE UNCHANGED themeVars
    /\ IF "notifications" \in active THEN TRUE ELSE UNCHANGED noteVars
    /\ IF "connect" \in active THEN TRUE ELSE UNCHANGED connVars
    /\ IF "app" \in active THEN TRUE ELSE UNCHANGED appVars
    /\ IF "nav" \in active THEN TRUE ELSE UNCHANGED navVars
    /\ IF "logo" \in active THEN TRUE ELSE UNCHANGED logoVars
    /\ IF "console" \in active THEN TRUE ELSE caught' = <<>> /\ consoleLog' = <<>>
    /\ UNCHANGED browserVars

(***************************************************************************)
(* Bounds of the model.                                                    *)
(***************************************************************************)
MaxTime == 20        \* debounce: the clock stops advancing here
MaxCalls == 4        \* debounce: invocations of the wrapper
MaxKeys == 11        \* Konami: keydown events
MaxWrong == 2        \* Konami: keydown events that break a partial match
MaxKonamiClock == 5000  \* Konami: the clock stops advancing here
ScrollableHeight == 200  \* scroll: scrollHeight - innerHeight of the page, in px
MaxScrollEvents == 4  \* scroll: scroll events
MaxScrollClock == 4000  \* scroll: the clock stops advancing here
MaxClock == 3000     \* loading screen: the clock stops advancing here
MaxHideCalls == 2    \* loading screen: invocations of hide()
MaxPollClock == 60000  \* server status: the clock stops advancing here
MaxManualClock == 30000  \* manual updates: the clock stops advancing here
MaxToggles == 3      \* theme: invocations of toggleTheme()
MaxThemeClock == 3300  \* theme: the clock stops advancing here
MaxConnects == 2     \* connect: invocations of connectToServer()
MaxConnectClock == 2500  \* connect: the clock stops advancing here
MaxCopyClock == 4500  \* copy: the clock stops advancing here
MaxCopies == 3       \* copy: clicks that invoke copyServerIP()
MaxFaults == 1       \* application: page-level faults
MaxNavEvents == 5    \* navigation: clicks and key presses
MaxLogoClicks == 31  \* logo: clicks
MaxLogoClock == 20000  \* logo: the clock stops advancing here
MaxAppClock == 3500  \* application: the clock stops advancing here
MaxHostBanners == 1  \* application: the host page shows a banner only while
                     \* fewer than this many have been shown

Max(a, b) == IF a >= b THEN a ELSE b
Min(a, b) == IF a <= b THEN a ELSE b
Last(s) == s[Len(s)]

(***************************************************************************)
(* The event loop: setTimeout, clearTimeout, and the passage of time.      *)
(* A timer runs when its delay has elapsed; timers due at the same time    *)
(* run in the order they were set.  The clock does not pass a pending      *)
(* timer's due time before that timer has run.                             *)
(***************************************************************************)
ClockInit(t0) ==
    /\ now = t0
    /\ timers = {}
    /\ nextTimerId = 1

\* setTimeout(callback, delay): a negative delay counts as 0.
SetTimeout(ts, kind, arg, delay) ==
    ts \cup {[id |-> nextTimerId, due |-> now + Max(0, delay), kind |-> kind, arg |-> arg]}

\* The setTimeout calls of one handler, in the order it makes them: each
\* request is [kind, arg, delay], and the ids are handed out in that order.
TimerRequest(kind, arg, delay) == [kind |-> kind, arg |-> arg, delay |-> delay]
SetTimeouts(ts, requests) ==
    ts \cup {[id |-> nextTimerId + i - 1, due |-> now + Max(0, requests[i].delay),
              kind |-> requests[i].kind, arg |-> requests[i].arg] : i \in DOMAIN requests}

\* clearTimeout(id): an id that names no pending timer is ignored.
ClearTimeout(ts, id) == {t \in ts : t.id # id}

\* The timer the event loop runs next, if it is `t`.
IsNextTimer(t) ==
    /\ t \in timers
    /\ t.due <= now
    /\ \A u \in timers : u.due > t.due \/ (u.due = t.due /\ u.id >= t.id)

\* The steps by which the clock of the millisecond-scale controllers advances.
ClockSteps == {100, 500}

\* Time passes by d milliseconds, up to `horizon`.
Tick(d, horizon) ==
    /\ now + d <= horizon
    /\ \A t \in timers : t.due >= now + d
    /\ now' = now + d
    /\ UNCHANGED <<timers, nextTimerId>>

\* Time passes until the pending timer that is due next is due, if that is
\* no later than `horizon`.
TickToTimer(horizon) ==
    /\ \E t \in timers :
          /\ \A u \in timers : u.due >= t.due
          /\ t.due > now
          /\ t.due <= horizon
          /\ now' = t.due
    /\ UNCHANGED <<timers, nextTimerId>>

(***************************************************************************)
(* showNotification(message, type): a banner is appended to document.body; *)
(* 3000ms later it begins to slide out, and 300ms after that it is removed.*)
(***************************************************************************)
bannerDuration == 3000
slideOutDuration == 300

SlideIn == "slideIn 0.3s ease-out"
SlideOut == "slideOut 0.3s ease-in forwards"
Removed == "(removed)"

NotificationsInit ==
    /\ notifications = <<>>
    /\ banners = <<>>

\* The banners shown so far after showNotification(message, type).
ShowNotification(shown, message, type) ==
    Append(shown, [message |-> message, type |-> type])

\* The setTimeout calls of the showNotification calls that extend the
\* banners shown from `before` to `after`: one per banner, for that banner.
BannerTimers(before, after) ==
    [i \in 1..(Len(after) - Len(before)) |->
        TimerRequest("slideOut", Len(before) + i, bannerDuration)]

\* A step whose showNotification calls leave `after` as the banners shown:
\* each new banner is in document.body and slides in.
Notify(after) ==
    /\ notifications' = after
    /\ banners' = banners \o [i \in 1..(Len(after) - Len(notifications)) |-> SlideIn]

\* The timer of showNotification runs: the banner begins to slide out, and
\* its removal is scheduled.  A timer's callback is a task of its own: it
\* runs when no microtask is left.
NotificationSlideOut ==
    /\ jobs = <<>>
    /\ \E t \in timers :
          /\ IsNextTimer(t)
          /\ t.kind = "slideOut"
          /\ banners' = [banners EXCEPT ![t.arg] = SlideOut]
          /\ timers' = SetTimeouts(timers \ {t},
                                   <<TimerRequest("remove", t.arg, slideOutDuration)>>)
          /\ nextTimerId' = nextTimerId + 1
    /\ UNCHANGED <<now, notifications>>
    /\ Frame({"clock", "notifications"})

\* The inner timer runs: notification.remove().
NotificationRemove ==
    /\ jobs = <<>>
    /\ \E t \in timers :
          /\ IsNextTimer(t)
          /\ t.kind = "remove"
          /\ banners' = [banners EXCEPT ![t.arg] = Removed]
          /\ timers' = timers \ {t}
    /\ UNCHANGED <<now, nextTimerId, notifications>>
    /\ Frame({"clock", "notifications"})

(***************************************************************************)
(* debounce(func, wait)                                                    *)
(***************************************************************************)
DebounceWaits == {3, 10}

DebounceInit(waits) ==
    /\ dbWait \in waits
    /\ dbTimeout = 0
    /\ dbCalls = 0
    /\ dbTrace = <<>>

\* The statement `clearTimeout(timeout)` of executedFunction.
DebounceCancelNoOp(ts) == ts
DebounceCancel(ts) == ClearTimeout(ts, dbTimeout)

\* executedFunction(...args): the arguments of the n-th invocation are n.
DebounceInvoke ==
    /\ dbCalls < MaxCalls
    /\ dbCalls' = dbCalls + 1
    /\ timers' = SetTimeout(DebounceCancel(timers), "later", dbCalls + 1, dbWait)
    /\ dbTimeout' = nextTimerId
    /\ nextTimerId' = nextTimerId + 1
    /\ dbTrace' = Append(dbTrace, [type |-> "call", t |-> now, arg |-> dbCalls + 1])
    /\ UNCHANGED <<now, dbWait>>
    /\ Frame({"clock", "debounce"})

\* later(): clearTimeout(timeout); func(...args).
DebounceLater ==
    /\ \E t \in timers :
           /\ IsNextTimer(t)
           /\ t.kind = "later"
           /\ timers' = ClearTimeout(timers \ {t}, dbTimeout)
           /\ dbTrace' = Append(dbTrace, [type |-> "run", t |-> now, arg |-> t.arg])
           /\ UNCHANGED <<now, nextTimerId, dbWait, dbTimeout, dbCalls>>
    /\ Frame({"clock", "debounce"})

DebounceTick ==
    /\ Tick(1, MaxTime)
    /\ UNCHANGED dbVars
    /\ Frame({"clock", "debounce"})

(***************************************************************************)
(* EasterEggManager: the Konami code detector                              *)
(***************************************************************************)
targetCode ==
    << "ArrowUp", "ArrowUp", "ArrowDown", "ArrowDown",
       "ArrowLeft", "ArrowRight", "ArrowLeft", "ArrowRight",
       "KeyB", "KeyA" >>

\* The key codes the keyboard of the model produces: those of the target
\* sequence and one unrelated key.
KeyCodes == {"ArrowUp", "ArrowDown", "ArrowLeft", "ArrowRight", "KeyB", "KeyA", "KeyX"}

\* activateKonamiEffect(): the filter it sets on document.body, and how long
\* the filter stays.
KonamiFilter == "hue-rotate(180deg) saturate(1.5)"
konamiDuration == 5000

KonamiInit ==
    /\ bodyFilter = ""
    /\ konamiCode = <<>>
    /\ konInput = <<>>
    /\ konFired = FALSE
    /\ konTriggers = 0
    /\ konKeys = 0
    /\ konWrong = 0

\* JSON.stringify of an array of key codes.
RECURSIVE JoinCodes(_)
JoinCodes(s) ==
    IF s = <<>> THEN ""
    ELSE "\"" \o s[1] \o "\"" \o (IF Len(s) = 1 THEN "" ELSE ",") \o JoinCodes(Tail(s))

StringifyCodes(s) == "[" \o JoinCodes(s) \o "]"

\* if (this.konamiCode.length > this.targetCode.length) this.konamiCode.shift()
KonamiTrimNoShift(buf) == buf
KonamiTrim(buf) == IF Len(buf) > Len(targetCode) THEN Tail(buf) ELSE buf

\* JSON.stringify(this.konamiCode) === JSON.stringify(this.targetCode)
KonamiMatches(buf) == StringifyCodes(buf) = StringifyCodes(targetCode)

\* The length of the longest proper prefix of the target that `s` ends with.
KonamiProgress(s) ==
    LET fits == {j \in 0..Min(Len(s), Len(targetCode) - 1) :
                    SubSeq(s, Len(s) - j + 1, Len(s)) = SubSeq(targetCode, 1, j)}
    IN  CHOOSE j \in fits : \A k \in fits : k <= j

\* The keydown listener of setupKonamiCode, for an event with e.code = code;
\* on a match it calls activateKonamiEffect(): the filter, a banner, and the
\* timer that resets the filter.  The typist continues the partial match,
\* or (MaxWrong times) presses another key.
KonamiKeydown(code) ==
    LET base == IF konFired THEN <<>> ELSE konInput
        onTrack == code = targetCode[KonamiProgress(base) + 1]
        buf == KonamiTrim(Append(konamiCode, code))
        hit == KonamiMatches(buf)
        shown == IF hit
                 THEN ShowNotification(notifications, "(party) Konami Code active!", "success")
                 ELSE notifications
        requests == IF hit
                    THEN BannerTimers(notifications, shown)
                             \o <<TimerRequest("unfilter", 0, konamiDuration)>>
                    ELSE <<>>
    IN  /\ konKeys < MaxKeys
        /\ onTrack \/ konWrong < MaxWrong
        /\ konKeys' = konKeys + 1
        /\ konWrong' = IF onTrack THEN konWrong ELSE konWrong + 1
        /\ konInput' = Append(base, code)
        /\ konamiCode' = IF hit THEN <<>> ELSE buf
        /\ konFired' = hit
        /\ konTriggers' = IF hit THEN konTriggers + 1 ELSE konTriggers
        /\ bodyFilter' = IF hit THEN KonamiFilter ELSE bodyFilter
        /\ Notify(shown)
        /\ timers' = SetTimeouts(timers, requests)
        /\ nextTimerId' = nextTimerId + Len(requests)
        /\ UNCHANGED now
        /\ Frame({"clock", "konami", "notifications"})

\* The timer of activateKonamiEffect runs: the filter is reset.
KonamiEnds ==
    /\ \E t \in timers :
          /\ IsNextTimer(t)
          /\ t.kind = "unfilter"
          /\ timers' = timers \ {t}
          /\ bodyFilter' = ""
    /\ UNCHANGED <<now, nextTimerId, konamiCode, konInput, konFired, konTriggers,
                   konKeys, konWrong>>
    /\ Frame({"clock", "konami"})

\* Time passes until the next pending timer is due.
KonamiTick ==
    /\ TickToTimer(MaxKonamiClock)
    /\ Frame({"clock"})

(***************************************************************************)
(* AnalyticsManager: scroll depth tracking                                 *)
(***************************************************************************)
scrollWait == 1000

ScrollInit ==
    /\ maxScrollDepth = 0
    /\ scrollLog = <<>>
    /\ scrolledBack = FALSE
    /\ windowScrollY = 0
    /\ scrollTimeout = 0
    /\ scrollEvents = 0

(***************************************************************************)
(* The Number type: IEEE 754 double precision, for positive values.  A     *)
(* double is <<m, e>>: m is its significand, a sequence of 53 bits with    *)
(* the most significant first (m[1] = 1), and its value is 1.m[2]...m[53]  *)
(* times 2^e.  Every operation rounds its exact result to the nearest      *)
(* double, a tie to the one whose last bit is 0.                           *)
(***************************************************************************)
SignificandBits == 53

\* The bits of the natural number n, without leading zeros.
RECURSIVE Binary(_)
Binary(n) == IF n = 0 THEN <<>> ELSE Binary(n \div 2) \o <<n % 2>>

\* The natural number whose bits are `bits`.
RECURSIVE BitsValue(_)
BitsValue(bits) ==
    IF bits = <<>> THEN 0
    ELSE 2 * BitsValue(SubSeq(bits, 1, Len(bits) - 1)) + bits[Len(bits)]

\* 2^n
RECURSIVE PowerOfTwo(_)
PowerOfTwo(n) == IF n = 0 THEN 1 ELSE 2 * PowerOfTwo(n - 1)

\* The n bits of the natural number v < 2^n, leading zeros included.
FixedBinary(v, n) == [i \in 1..(n - Len(Binary(v))) |-> 0] \o Binary(v)

\* bits + 1 (one bit longer when every bit is 1): the last 0 becomes 1 and
\* the 1s after it become 0.
AddOne(bits) ==
    LET zeros == {i \in DOMAIN bits : bits[i] = 0}
        last == IF zeros = {} THEN 0 ELSE CHOOSE i \in zeros : \A j \in zeros : j <= i
    IN  SubSeq(bits, 1, last - 1) \o <<1>> \o [i \in 1..(Len(bits) - last) |-> 0]

\* Long arithmetic works on this many bits at a time.
LimbBits == 16

\* The double nearest to 1.bits[2]bits[3]... times 2^e, where the exact
\* value has further nonzero bits after `bits` iff `sticky`.
RoundToDouble(bits, sticky, e) ==
    LET n == SignificandBits
        padded == IF Len(bits) > n THEN bits
                  ELSE bits \o [i \in 1..(n + 1 - Len(bits)) |-> 0]
        kept == SubSeq(padded, 1, n)
        guard == padded[n + 1]
        rest == sticky \/ \E i \in (n + 2)..Len(padded) : padded[i] = 1
        up == guard = 1 /\ (rest \/ kept[n] = 1)
        sum == IF up THEN AddOne(kept) ELSE kept
    IN  IF Len(sum) > n THEN <<SubSeq(sum, 1, n), e + 1>> ELSE <<sum, e>>

\* The widest limb, of at most `width` bits, by which a remainder below h
\* can be shifted within 31 bits.
RECURSIVE DivisionLimb(_, _)
DivisionLimb(h, width) ==
    IF width = 1 \/ h <= PowerOfTwo(31 - width) THEN width
    ELSE DivisionLimb(h, width - 1)

\* The first n bits after the binary point of r / h, for 0 <= r < h, and the
\* remainder: long division, a limb at a time.
RECURSIVE DivideBits(_, _, _)
DivideBits(r, h, n) ==
    IF n = 0 THEN <<<<>>, r>>
    ELSE LET width == DivisionLimb(h, Min(n, LimbBits))
             scaled == r * PowerOfTwo(width)
             more == DivideBits(scaled % h, h, n - width)
         IN  <<FixedBinary(scaled \div h, width) \o more[1], more[2]>>

\* The number of doublings that bring x up to h, for x > 0.
RECURSIVE Doublings(_, _)
Doublings(x, h) == IF x >= h THEN 0 ELSE 1 + Doublings(2 * x, h)

\* The number of doublings of h that stay within x, for h > 0.
RECURSIVE Halvings(_, _)
Halvings(x, h) == IF x < 2 * h THEN 0 ELSE 1 + Halvings(x, 2 * h)

\* x / h for the integers x > 0 and h > 0, both below 2^30: the quotient's
\* leading 1 and the bits after it.
DoubleDivide(x, h) ==
    LET up == Doublings(x, h)
        down == Halvings(x, h)
        divisor == h * PowerOfTwo(down)
        quotient == DivideBits(x * PowerOfTwo(up) - divisor, divisor, SignificandBits)
    IN  RoundToDouble(<<1>> \o quotient[1], quotient[2] # 0, down - up)

\* bits * k + carry, for a natural number k: long multiplication, from the
\* least significant limb.
RECURSIVE TimesBits(_, _, _)
TimesBits(bits, k, carry) ==
    IF bits = <<>> THEN Binary(carry)
    ELSE LET cut == Max(0, Len(bits) - LimbBits)
             width == Len(bits) - cut
             t == BitsValue(SubSeq(bits, cut + 1, Len(bits))) * k + carry
         IN  TimesBits(SubSeq(bits, 1, cut), k, t \div PowerOfTwo(width))
                 \o FixedBinary(t % PowerOfTwo(width), width)

\* d * k for a double d and a natural number k >= 1.
DoubleTimes(d, k) ==
    LET product == TimesBits(d[1], k, 0)
    IN  RoundToDouble(product, FALSE, d[2] + Len(product) - SignificandBits)

\* n zero bits.
Zeros(n) == [i \in 1..n |-> 0]

\* The bits without their leading zeros.
Significant(bits) ==
    LET ones == {i \in DOMAIN bits : bits[i] = 1}
    IN  IF ones = {} THEN <<>>
        ELSE SubSeq(bits, CHOOSE i \in ones : \A j \in ones : i <= j, Len(bits))

\* a + b + carry for bit sequences of one length: long addition, from the
\* least significant limb.
RECURSIVE SumBits(_, _, _)
SumBits(a, b, carry) ==
    IF a = <<>> THEN Binary(carry)
    ELSE LET cut == Max(0, Len(a) - LimbBits)
             width == Len(a) - cut
             t == BitsValue(SubSeq(a, cut + 1, Len(a)))
                      + BitsValue(SubSeq(b, cut + 1, Len(b))) + carry
         IN  SumBits(SubSeq(a, 1, cut), SubSeq(b, 1, cut), t \div PowerOfTwo(width))
                 \o FixedBinary(t % PowerOfTwo(width), width)

\* a + b for bit sequences.
PlusBits(a, b) ==
    LET n == Max(Len(a), Len(b))
    IN  SumBits(Zeros(n - Len(a)) \o a, Zeros(n - Len(b)) \o b, 0)

\* a * b for bit sequences: long multiplication, half a limb of b at a time.
RECURSIVE ProductBits(_, _)
ProductBits(a, b) ==
    IF b = <<>> THEN <<>>
    ELSE LET cut == Max(0, Len(b) - LimbBits \div 2)
             width == Len(b) - cut
             low == BitsValue(SubSeq(b, cut + 1, Len(b)))
         IN  PlusBits(TimesBits(a, low, 0),
                      ProductBits(a, SubSeq(b, 1, cut)) \o Zeros(width))

\* x * y for doubles x and y.
DoubleMultiply(x, y) ==
    LET product == Significant(ProductBits(x[1], y[1]))
    IN  RoundToDouble(product, FALSE,
                      x[2] + y[2] + Len(product) - (2 * SignificandBits - 1))

\* x + y for doubles x and y.
DoublePlus(x, y) ==
    LET high == IF x[2] >= y[2] THEN x ELSE y
        low == IF x[2] >= y[2] THEN y ELSE x
        sum == PlusBits(high[1] \o Zeros(high[2] - low[2]), low[1])
    IN  RoundToDouble(sum, FALSE, low[2] + Len(sum) - SignificandBits)

\* The nearest integer to 1.bits[2]bits[3]... times 2^e, halves round up.
RoundHalfUp(bits, e) ==
    IF e < 0 - 1 THEN 0
    ELSE BitsValue(SubSeq(bits, 1, Min(e + 1, Len(bits))))
             * PowerOfTwo(Max(0, e + 1 - Len(bits)))
         + (IF e + 2 <= Len(bits) THEN bits[e + 2] ELSE 0)

\* Math.round(d) for a double d: the nearest integer, halves round up.
MathRoundDouble(d) == RoundHalfUp(d[1], d[2])

\* Math.floor(d) for a double d.
MathFloor(d) ==
    IF d[2] < 0 THEN 0
    ELSE BitsValue(SubSeq(d[1], 1, Min(d[2] + 1, Len(d[1]))))
             * PowerOfTwo(Max(0, d[2] + 1 - Len(d[1])))

\* d.toFixed(1) for a double d, in tenths: the integer n for which n / 10 is
\* nearest to the exact value of d, the larger one of two.
ToFixedTenths(d) ==
    LET tenfold == TimesBits(d[1], 10, 0)
    IN  RoundHalfUp(tenfold, d[2] + Len(tenfold) - SignificandBits)

\* Math.round((window.scrollY / (scrollHeight - innerHeight)) * 100), for
\* every position of the page.
ScrollDepths ==
    [scrollY \in 0..ScrollableHeight |->
        IF scrollY = 0 THEN 0
        ELSE MathRoundDouble(DoubleTimes(DoubleDivide(scrollY, ScrollableHeight), 100))]

ScrollDepth(scrollY) == ScrollDepths[scrollY]

\* The positions the page is scrolled to: every tenth pixel, and positions
\* whose depth is not the nearest integer to the exact quotient.
ScrollPositions ==
    {scrollY \in 0..ScrollableHeight : scrollY % 10 = 0} \cup {29, 57, 115}

\* The page is scrolled to scrollY and the scroll event is dispatched: the
\* wrapper that debounce returned cancels the timer it set before, if that
\* is still pending, and sets a new one.
ScrollEvent(scrollY) ==
    /\ scrollEvents < MaxScrollEvents
    /\ scrollEvents' = scrollEvents + 1
    /\ windowScrollY' = scrollY
    /\ timers' = SetTimeout(ClearTimeout(timers, scrollTimeout), "scroll", 0, scrollWait)
    /\ scrollTimeout' = nextTimerId
    /\ nextTimerId' = nextTimerId + 1
    /\ UNCHANGED <<now, maxScrollDepth, scrollLog, scrolledBack>>
    /\ Frame({"clock", "scroll"})

\* The timer `t` of the debounce runs: later() calls clearTimeout(timeout)
\* and then the listener.
ScrollLater(t) ==
    /\ IsNextTimer(t)
    /\ t.kind = "scroll"
    /\ timers' = ClearTimeout(timers \ {t}, scrollTimeout)
    /\ UNCHANGED <<now, nextTimerId, windowScrollY, scrollTimeout, scrollEvents>>

\* console.log('Scroll Depth:', ...) of the listener.
ScrollDepthLogged == ConsoleEntry("log", "AnalyticsManager.trackUserInteractions")

\* A listener that tracks the current depth instead of the maximum.
ScrollHandlerTracksCurrent ==
    LET scrollDepth == ScrollDepth(windowScrollY)
    IN  /\ \E t \in timers : ScrollLater(t)
        /\ scrollDepth # maxScrollDepth
        /\ maxScrollDepth' = scrollDepth
        /\ scrolledBack' = FALSE
        /\ scrollLog' = IF scrollDepth % 25 = 0
                           THEN Append(scrollLog, scrollDepth)
                           ELSE scrollLog
        /\ Diagnose(<<>>, IF scrollDepth % 25 = 0 THEN <<ScrollDepthLogged>> ELSE <<>>)
        /\ Frame({"clock", "scroll", "console"})

\* The debounced scroll listener of trackUserInteractions, run as the timer
\* that the latest scroll event set: the depth of the page's position is a
\* new maximum.
ScrollHandler ==
    LET scrollDepth == ScrollDepth(windowScrollY)
    IN  /\ \E t \in timers : ScrollLater(t)
        /\ scrollDepth > maxScrollDepth
        /\ maxScrollDepth' = scrollDepth
        /\ scrolledBack' = FALSE
        /\ scrollLog' = IF scrollDepth % 25 = 0
                           THEN Append(scrollLog, scrollDepth)
                           ELSE scrollLog
        /\ Diagnose(<<>>, IF scrollDepth % 25 = 0 THEN <<ScrollDepthLogged>> ELSE <<>>)
        /\ Frame({"clock", "scroll", "console"})

\* The listener run with a depth that is no new maximum: nothing is
\* recorded and nothing is written.
ScrollHandlerNoNewMax ==
    /\ \E t \in timers : ScrollLater(t)
    /\ ScrollDepth(windowScrollY) <= maxScrollDepth
    /\ scrolledBack' = (ScrollDepth(windowScrollY) < maxScrollDepth)
    /\ UNCHANGED <<maxScrollDepth, scrollLog>>
    /\ Frame({"clock", "scroll"})

\* Time passes, by half the debounce's wait or up to its timer.
ScrollTick ==
    /\ \/ Tick(scrollWait \div 2, MaxScrollClock)
       \/ TickToTimer(MaxScrollClock)
    /\ UNCHANGED scrollVars
    /\ Frame({"clock", "scroll"})

(***************************************************************************)
(* LoadingManager                                                          *)
(***************************************************************************)
minLoadTime == 1000
fadeDuration == 500

\* The times at which the LoadingManager is constructed in the model.
LoadStartTimes == {0, 300}

LoadingInit ==
    /\ loadStartTime = now
    /\ loadOpacity = ""
    /\ loadDisplay = ""
    /\ bodyLoaded = FALSE
    /\ hideCalls = 0
    /\ fadeLog = <<>>

\* remainingTime = Math.max(0, this.minLoadTime - elapsedTime)
RemainingTimeFullWait(elapsedTime) == minLoadTime
RemainingTime(elapsedTime) == Max(0, minLoadTime - elapsedTime)

\* hide(): schedules the fade; the timer remembers when hide() was invoked.
LoadingHide ==
    /\ hideCalls < MaxHideCalls
    /\ hideCalls' = hideCalls + 1
    /\ timers' = SetTimeout(timers, "fade", now, RemainingTime(now - loadStartTime))
    /\ nextTimerId' = nextTimerId + 1
    /\ UNCHANGED <<now, loadStartTime, loadOpacity, loadDisplay, bodyLoaded, fadeLog>>
    /\ Frame({"clock", "loading"})

\* The outer timer callback of hide(): the fade begins.
LoadingFade ==
    /\ \E t \in timers :
           /\ IsNextTimer(t)
           /\ t.kind = "fade"
           /\ loadOpacity' = "0"
           /\ timers' = SetTimeout(timers \ {t}, "hidden", now, fadeDuration)
           /\ nextTimerId' = nextTimerId + 1
           /\ fadeLog' = Append(fadeLog, [hideAt |-> t.arg, fadeAt |-> now])
           /\ UNCHANGED <<now, loadStartTime, loadDisplay, bodyLoaded, hideCalls>>
    /\ Frame({"clock", "loading"})

\* An inner callback that hides the screen and leaves the body's classes alone.
LoadingHiddenNoFlag ==
    /\ \E t \in timers :
           /\ IsNextTimer(t)
           /\ t.kind = "hidden"
           /\ timers' = timers \ {t}
           /\ loadDisplay' = "none"
           /\ UNCHANGED <<now, nextTimerId, loadStartTime, loadOpacity, hideCalls, fadeLog,
                          bodyLoaded>>
    /\ Frame({"clock", "loading"})

\* The inner timer callback of hide(): the screen leaves the layout.
LoadingHidden ==
    /\ \E t \in timers :
           /\ IsNextTimer(t)
           /\ t.kind = "hidden"
           /\ timers' = timers \ {t}
           /\ loadDisplay' = "none"
           /\ bodyLoaded' = TRUE
           /\ UNCHANGED <<now, nextTimerId, loadStartTime, loadOpacity, hideCalls, fadeLog>>
    /\ Frame({"clock", "loading"})

LoadingTick ==
    /\ \E d \in ClockSteps : Tick(d, MaxClock)
    /\ UNCHANGED loadVars
    /\ Frame({"clock", "loading"})

(***************************************************************************)
(* ServerStatusManager and the shared serverData record                    *)
(***************************************************************************)
updateInterval == 30000

\* The record `serverData` of the script's top level.  A number with one
\* decimal (uptime) is held in tenths: 999 is 99.9.
InitialServerData ==
    [status |-> "online", playersOnline |-> 127, maxPlayers |-> 200,
     ping |-> 45, uptime |-> 999]

\* The strings of updateDisplay; the script's labels are
\* (green circle) + "online" and (red circle) + "out of service" in Kurdish.
OnlineText == "(green) online"
OfflineText == "(red) offline"
NoElement == "(no element)"
Placeholder == "(markup)"

\* The pages of the model: which of the four status elements the markup has.
ElementConfigs ==
    { [status |-> TRUE,  playerCount |-> TRUE,  ping |-> TRUE,  uptime |-> TRUE],
      [status |-> FALSE, playerCount |-> TRUE,  ping |-> TRUE,  uptime |-> TRUE],
      [status |-> TRUE,  playerCount |-> FALSE, ping |-> TRUE,  uptime |-> FALSE] }

\* What the elements show before any script has run.
Markup(els) ==
    [statusText  |-> IF els.status THEN Placeholder ELSE NoElement,
     statusClass |-> IF els.status THEN Placeholder ELSE NoElement,
     playerCount |-> IF els.playerCount THEN Placeholder ELSE NoElement,
     ping        |-> IF els.ping THEN Placeholder ELSE NoElement,
     uptime      |-> IF els.uptime THEN Placeholder ELSE NoElement]

\* The values Math.random() returns in the model, as <<numerator, denominator>>.
RandomSamples == {<<0, 1>>, <<1, 2>>, <<999, 1000>>}

\* Math.random() returns the double nearest to r[1] / r[2]; 0 is no double
\* of the Number section and is treated apart.
\* randomBetween(min, max): Math.floor(Math.random() * (max - min + 1)) + min.
RandomBetween(r, min, max) ==
    IF r[1] = 0 THEN min
    ELSE MathFloor(DoubleTimes(DoubleDivide(r[1], r[2]), max - min + 1)) + min

\* Math.random() > 0.1
IsOnline(r) == r[1] * 10 > r[2]

\* parseFloat((99.5 + Math.random() * 0.4).toFixed(1)), in tenths: the
\* product and the sum are doubles, and toFixed rounds the sum's exact value.
SimulatedUptime(r) ==
    LET base == DoubleDivide(199, 2)
        span == DoubleDivide(2, 5)
    IN  IF r[1] = 0 THEN ToFixedTenths(base)
        ELSE ToFixedTenths(DoublePlus(base, DoubleMultiply(DoubleDivide(r[1], r[2]), span)))

\* What the expressions of fetchServerData's object literal yield when
\* Math.random() returns r.
Drawn(r) ==
    [playersOnline |-> RandomBetween(r, 80, 200),
     ping          |-> RandomBetween(r, 25, 80),
     uptime        |-> SimulatedUptime(r)]

\* Drawn for the samples, evaluated once.
SampleDraws == [r \in RandomSamples |-> Drawn(r)]
Draw(r) == IF r \in RandomSamples THEN SampleDraws[r] ELSE Drawn(r)

\* An object literal that draws players and ping whether online or not.
SimulatedDataAlwaysDrawn(rOnline, rPlayers, rPing, rUptime) ==
    [status        |-> IF IsOnline(rOnline) THEN "online" ELSE "offline",
     playersOnline |-> Draw(rPlayers).playersOnline,
     maxPlayers    |-> 200,
     ping          |-> Draw(rPing).ping,
     uptime        |-> Draw(rUptime).uptime]

\* The object literal of fetchServerData.
SimulatedData(rOnline, rPlayers, rPing, rUptime) ==
    [status        |-> IF IsOnline(rOnline) THEN "online" ELSE "offline",
     playersOnline |-> IF IsOnline(rOnline) THEN Draw(rPlayers).playersOnline ELSE 0,
     maxPlayers    |-> 200,
     ping          |-> IF IsOnline(rOnline) THEN Draw(rPing).ping ELSE 0,
     uptime        |-> Draw(rUptime).uptime]

\* `${x}` for a non-negative number x held in tenths.
TenthsToString(x) ==
    IF x % 10 = 0 THEN ToString(x \div 10)
    ELSE ToString(x \div 10) \o "." \o ToString(x % 10)

\* The texts updateDisplay computes from a record.
StatusText(sd) == IF sd.status = "online" THEN OnlineText ELSE OfflineText
StatusClass(sd) == IF sd.status = "online" THEN "status-online" ELSE "status-offline"
PlayerCountText(sd) == ToString(sd.playersOnline) \o "/" \o ToString(sd.maxPlayers)
PingTextAlwaysMs(sd) == ToString(sd.ping) \o "ms"
PingText(sd) == IF sd.status = "online" THEN ToString(sd.ping) \o "ms" ELSE "N/A"
UptimeText(sd) == TenthsToString(sd.uptime) \o "%"

\* updateDisplay(): what the elements show afterwards.
UpdateDisplay(shown, sd, els) ==
    IF ~els.status THEN shown
    ELSE [statusText  |-> StatusText(sd),
          statusClass |-> StatusClass(sd),
          playerCount |-> IF els.playerCount THEN PlayerCountText(sd) ELSE shown.playerCount,
          ping        |-> IF els.ping THEN PingText(sd) ELSE shown.ping,
          uptime      |-> IF els.uptime THEN UptimeText(sd) ELSE shown.uptime]

\* new ServerStatusManager(): init() renders once and starts the interval.
\* An object without fields.
NoFields == [f \in {} |-> 0]

StatusInit(configs) ==
    /\ serverData = InitialServerData
    /\ statusElements \in configs
    /\ display = UpdateDisplay(Markup(statusElements), InitialServerData, statusElements)
    /\ pollPc = "idle"
    /\ renderedFrom = InitialServerData
    /\ lastTick = [at |-> 0, failed |-> FALSE, data |-> serverData, shown |-> display]
    /\ manualSince = NoFields

\* The interval set by startAutoUpdate.
PollTimer == [id |-> 0, due |-> updateInterval, kind |-> "poll", arg |-> 0]

\* A fetch that assigns the new record before it fails.
PollFetchAssignsThenFails(fails) ==
    /\ \E t \in timers :
           /\ IsNextTimer(t) /\ t.kind = "poll" /\ pollPc = "idle"
           /\ \E rOnline, rPlayers, rPing, rUptime \in RandomSamples :
                 serverData' = SimulatedData(rOnline, rPlayers, rPing, rUptime)
           /\ IF fails
              THEN Diagnose(<<"fetchServerData">>,
                            <<ConsoleEntry("error", "fetchServerData")>>)
              ELSE Diagnose(<<>>, <<>>)
           /\ timers' = (timers \ {t}) \cup {[t EXCEPT !.due = t.due + updateInterval]}
           /\ pollPc' = "fetched"
           /\ lastTick' = [at |-> now, failed |-> fails, data |-> serverData,
                           shown |-> display]
           /\ manualSince' = IF fails THEN manualSince ELSE NoFields
           /\ UNCHANGED <<now, nextTimerId, statusElements, display, renderedFrom>>
    /\ Frame({"clock", "status", "console"})

\* The interval callback up to its await: fetchServerData() replaces serverData.
PollFetch(fails) ==
    /\ \E t \in timers :
           /\ IsNextTimer(t) /\ t.kind = "poll" /\ pollPc = "idle"
           /\ IF fails
              THEN /\ serverData' = serverData
                   /\ Diagnose(<<"fetchServerData">>,
                               <<ConsoleEntry("error", "fetchServerData")>>)
              ELSE /\ \E rOnline, rPlayers, rPing, rUptime \in RandomSamples :
                         serverData' = SimulatedData(rOnline, rPlayers, rPing, rUptime)
                   /\ Diagnose(<<>>, <<>>)
           /\ timers' = (timers \ {t}) \cup {[t EXCEPT !.due = t.due + updateInterval]}
           /\ pollPc' = "fetched"
           /\ lastTick' = [at |-> now, failed |-> fails, data |-> serverData,
                           shown |-> display]
           /\ manualSince' = IF fails THEN manualSince ELSE NoFields
           /\ UNCHANGED <<now, nextTimerId, statusElements, display, renderedFrom>>
    /\ Frame({"clock", "status", "console"})

\* An interval callback that does not render after its await.
PollRenderSkipped ==
    /\ pollPc = "fetched"
    /\ pollPc' = "idle"
    /\ UNCHANGED <<clockVars, serverData, statusElements, lastTick, manualSince,
                   display, renderedFrom>>
    /\ Frame({"clock", "status"})

\* The interval callback after its await: updateDisplay().
PollRender ==
    /\ pollPc = "fetched"
    /\ display' = UpdateDisplay(display, serverData, statusElements)
    /\ renderedFrom' = serverData
    /\ pollPc' = "idle"
    /\ UNCHANGED <<clockVars, serverData, statusElements, lastTick, manualSince>>
    /\ Frame({"clock", "status"})

\* The partial records passed to updateServerData in the model.
ManualUpdates ==
    { [status |-> "offline"],
      [status |-> "online", playersOnline |-> 150, maxPlayers |-> 200],
      [playersOnline |-> 0, ping |-> 0, uptime |-> 997],
      [uptime |-> 1000] }

\* An update that replaces the record: absent fields fall back to the initial ones.
ObjectReplace(target, source) ==
    [f \in DOMAIN target \cup DOMAIN source |->
        IF f \in DOMAIN source THEN source[f] ELSE InitialServerData[f]]

\* Object.assign(serverData, newData)
ObjectAssign(target, source) ==
    [f \in DOMAIN target \cup DOMAIN source |->
        IF f \in DOMAIN source THEN source[f] ELSE target[f]]

\* Time passes; a callback that has begun runs on before the clock moves.
StatusTick ==
    /\ pollPc = "idle"
    /\ Tick(updateInterval, MaxPollClock)
    /\ UNCHANGED statusVars
    /\ Frame({"clock", "status"})

(***************************************************************************)
(* JSON values and their text.  A value is [t |-> type, v |-> content]:    *)
(* null, a boolean, a number, a string, an array (the sequence of its      *)
(* elements) or an object (the sequence of its members <<name, value>>, in *)
(* property order: array-index names ascending, then the other names in    *)
(* the order they were added).  A number has at most nine significant      *)
(* digits: it is an integer n ("num") or, when it is no integer or is no   *)
(* less than 2^31, m * 10^e with m no multiple of ten ("dec").  Such       *)
(* numbers and their decimal texts determine each other, as they do for    *)
(* doubles; 0 and -0, equal under ===, are one number.                     *)
(* Strings are over the printable ASCII characters without the grave       *)
(* accent, and tab, line feed, form feed and carriage return.              *)
(***************************************************************************)
JNull == [t |-> "null", v |-> 0]
JNum(n) == [t |-> "num", v |-> n]
JDec(m, e) == [t |-> "dec", v |-> <<m, e>>]
JStr(str) == [t |-> "str", v |-> str]
JArr(elements) == [t |-> "arr", v |-> elements]
JObject(members) == [t |-> "obj", v |-> members]
JObj(name, val) == JObject(<<<<name, val>>>>)
SyntaxError == [t |-> "SyntaxError", v |-> 0]
Unset == [t |-> "unset", v |-> 0]
True == [t |-> "bool", v |-> TRUE]
False == [t |-> "bool", v |-> FALSE]

\* The result of JSON.parse on a text that denotes a value outside the
\* values above.
Unmodelled == [t |-> "unmodelled", v |-> 0]

\* The values passed to set() in the model.
JsonValues ==
    {JNull, JNum(0), JNum(0 - 7), JStr(""), JStr("say \"hi\" \\ \n"),
     JObj("a", JNum(1)),
     JObject(<<<<"1", JStr("x")>>, <<"b", JObj("c", JArr(<<True, JDec(15, 0 - 1)>>))>>>>)}

\* The characters of the string from one index to another, as far as it has them.
Slice(str, from, to) ==
    IF from > Min(to, Len(str)) THEN "" ELSE SubSeq(str, from, Min(to, Len(str)))
Char(str, i) == IF i >= 1 THEN Slice(str, i, i) ELSE ""
Digits == <<"0", "1", "2", "3", "4", "5", "6", "7", "8", "9">>
IsDigit(c) == \E d \in DOMAIN Digits : Digits[d] = c
DigitValue(c) == (CHOOSE d \in DOMAIN Digits : Digits[d] = c) - 1

\* 10^n
RECURSIVE PowerOfTen(_)
PowerOfTen(n) == IF n = 0 THEN 1 ELSE 10 * PowerOfTen(n - 1)

\* n times the character c.
RECURSIVE Repeat(_, _)
Repeat(c, n) == IF n <= 0 THEN "" ELSE c \o Repeat(c, n - 1)

\* The text of the number m * 10^e, for m not divisible by 10 (Number::toString).
DecimalText(m, e) ==
    LET sign == IF m < 0 THEN "-" ELSE ""
        digits == ToString(IF m < 0 THEN 0 - m ELSE m)
        k == Len(digits)
        n == k + e
        exponent == IF n - 1 < 0 THEN "e-" \o ToString(1 - n) ELSE "e+" \o ToString(n - 1)
    IN  sign \o
        (IF k <= n /\ n <= 21 THEN digits \o Repeat("0", n - k)
         ELSE IF 0 < n /\ n <= 21
              THEN SubSeq(digits, 1, n) \o "." \o SubSeq(digits, n + 1, k)
         ELSE IF 0 - 6 < n /\ n <= 0 THEN "0." \o Repeat("0", 0 - n) \o digits
         ELSE IF k = 1 THEN digits \o exponent
         ELSE SubSeq(digits, 1, 1) \o "." \o SubSeq(digits, 2, k) \o exponent)

\* The text of a string between quotes: the quote, the reverse solidus and
\* the control characters are escaped.
RECURSIVE Escaped(_)
Escaped(str) ==
    IF str = "" THEN ""
    ELSE LET c == Char(str, 1)
         IN  (CASE c = "\"" -> "\\\""
                [] c = "\\" -> "\\\\"
                [] c = "\n" -> "\\n"
                [] c = "\t" -> "\\t"
                [] c = "\r" -> "\\r"
                [] c = "\f" -> "\\f"
                [] OTHER -> c)
             \o Escaped(SubSeq(str, 2, Len(str)))

Quote(str) == "\"" \o Escaped(str) \o "\""

\* JSON.stringify(value)
RECURSIVE Stringify(_)
RECURSIVE StringifyAll(_, _)
StringifyAll(items, isObject) ==
    IF items = <<>> THEN ""
    ELSE (IF isObject THEN Quote(items[1][1]) \o ":" \o Stringify(items[1][2])
          ELSE Stringify(items[1]))
         \o (IF Len(items) = 1 THEN "" ELSE "," \o StringifyAll(Tail(items), isObject))
Stringify(val) ==
    CASE val.t = "null" -> "null"
      [] val.t = "bool" -> (IF val.v THEN "true" ELSE "false")
      [] val.t = "num"  -> ToString(val.v)
      [] val.t = "dec"  -> DecimalText(val.v[1], val.v[2])
      [] val.t = "str"  -> Quote(val.v)
      [] val.t = "arr"  -> "[" \o StringifyAll(val.v, FALSE) \o "]"
      [] val.t = "obj"  -> "{" \o StringifyAll(val.v, TRUE) \o "}"

\* The index after the white space that begins at index i of the text.
RECURSIVE SkipSpace(_, _)
SkipSpace(text, i) ==
    IF Char(text, i) \in {" ", "\t", "\n", "\r"} THEN SkipSpace(text, i + 1) ELSE i

RECURSIVE ParseDigits(_)
ParseDigits(str) ==
    IF Len(str) = 0 THEN 0
    ELSE 10 * ParseDigits(SubSeq(str, 1, Len(str) - 1)) + DigitValue(Char(str, Len(str)))

\* The digits without their leading zeros, and without their trailing zeros.
RECURSIVE DropLeadingZeros(_)
DropLeadingZeros(str) ==
    IF Char(str, 1) = "0" THEN DropLeadingZeros(SubSeq(str, 2, Len(str))) ELSE str
RECURSIVE DropTrailingZeros(_)
DropTrailingZeros(str) ==
    IF Char(str, Len(str)) = "0" THEN DropTrailingZeros(SubSeq(str, 1, Len(str) - 1))
    ELSE str

\* What parsing from an index of the text gives: nothing, or a value and
\* the index after it; `known` says whether the value is one of the model.
NoParse == [ok |-> FALSE, known |-> FALSE, val |-> SyntaxError, next |-> 0]
Parsed(val, next, known) == [ok |-> TRUE, known |-> known, val |-> val, next |-> next]

\* The index after the number that begins at index i of the text, or 0 when
\* none does: -? (0 | [1-9][0-9]*) (. [0-9]+)? ([eE] [+-]? [0-9]+)?, read
\* character by character; `state` is the part of the number read last.
RECURSIVE NumberEnd(_, _, _)
NumberEnd(text, i, state) ==
    CASE state = "start" /\ Char(text, i) = "-" -> NumberEnd(text, i + 1, "minus")
      [] state \in {"start", "minus"} /\ Char(text, i) = "0" ->
            NumberEnd(text, i + 1, "zero")
      [] state \in {"start", "minus"} /\ IsDigit(Char(text, i)) /\ Char(text, i) # "0" ->
            NumberEnd(text, i + 1, "integer")
      [] state = "integer" /\ IsDigit(Char(text, i)) -> NumberEnd(text, i + 1, "integer")
      [] state \in {"zero", "integer"} /\ Char(text, i) = "." ->
            NumberEnd(text, i + 1, "point")
      [] state \in {"point", "fraction"} /\ IsDigit(Char(text, i)) ->
            NumberEnd(text, i + 1, "fraction")
      [] state \in {"zero", "integer", "fraction"} /\ Char(text, i) \in {"e", "E"} ->
            NumberEnd(text, i + 1, "e")
      [] state = "e" /\ Char(text, i) \in {"+", "-"} -> NumberEnd(text, i + 1, "sign")
      [] state \in {"e", "sign", "exponent"} /\ IsDigit(Char(text, i)) ->
            NumberEnd(text, i + 1, "exponent")
      [] OTHER -> IF state \in {"zero", "integer", "fraction", "exponent"} THEN i ELSE 0

\* The part of the string before the first of the characters, and the part
\* after it.
RECURSIVE Before(_, _)
Before(str, chars) ==
    IF str = "" \/ Char(str, 1) \in chars THEN ""
    ELSE Char(str, 1) \o Before(SubSeq(str, 2, Len(str)), chars)
After(str, chars) == Slice(str, Len(Before(str, chars)) + 2, Len(str))

\* The parts of a numeral: what follows its sign, its digits before and
\* after the point, and its exponent.
Unsigned(numeral) ==
    IF Char(numeral, 1) \in {"-", "+"} THEN Slice(numeral, 2, Len(numeral)) ELSE numeral
IntegerDigits(numeral) == Before(Unsigned(numeral), {".", "e", "E"})
FractionDigits(numeral) == After(Before(Unsigned(numeral), {"e", "E"}), {"."})
ExponentDigits(numeral) == DropLeadingZeros(Unsigned(After(numeral, {"e", "E"})))
WrittenExponent(numeral) ==
    (IF Char(After(numeral, {"e", "E"}), 1) = "-" THEN 0 - 1 ELSE 1)
        * ParseDigits(ExponentDigits(numeral))

\* The numeral as m * 10^e, m no multiple of ten: the digits of m, and e.
Significand(numeral) ==
    DropTrailingZeros(DropLeadingZeros(IntegerDigits(numeral) \o FractionDigits(numeral)))
Exponent(numeral) ==
    WrittenExponent(numeral) - Len(FractionDigits(numeral))
        + Len(DropLeadingZeros(IntegerDigits(numeral) \o FractionDigits(numeral)))
        - Len(Significand(numeral))

\* Whether the numeral denotes a number of the model.
IsModelled(numeral) ==
    /\ Len(Significand(numeral)) <= 9
    /\ Len(ExponentDigits(numeral)) <= 3
    /\ \/ Significand(numeral) = ""
       \/ /\ Exponent(numeral) + Len(Significand(numeral)) <= 300
          /\ Exponent(numeral) + Len(Significand(numeral)) >= 0 - 300

\* The number m * 10^e, negated if `negative`.
NumberValue(negative, m, e) ==
    IF m = 0 THEN JNum(0)
    ELSE IF e >= 0 /\ e <= 9 /\ m <= 2147483647 \div PowerOfTen(e)
         THEN JNum((IF negative THEN 0 - 1 ELSE 1) * m * PowerOfTen(e))
    ELSE JDec(IF negative THEN 0 - m ELSE m, e)

\* The number the numeral denotes.
NumberOf(numeral) ==
    NumberValue(Char(numeral, 1) = "-", ParseDigits(Significand(numeral)),
                Exponent(numeral))

\* The number between index i and index end of the text.
NumberBetween(text, i, end) ==
    IF end = 0 THEN NoParse
    ELSE IF IsModelled(Slice(text, i, end - 1))
         THEN Parsed(NumberOf(Slice(text, i, end - 1)), end, TRUE)
    ELSE Parsed(Unmodelled, end, FALSE)

\* A number at index i of the text.
ParseNumber(text, i) == NumberBetween(text, i, NumberEnd(text, i, "start"))

\* The characters with the code points 32 to 95 and 97 to 126.
Printable ==
    " !\"#$%&'()*+,-./0123456789:;<=>?@ABCDEFGHIJKLMNOPQRSTUVWXYZ[\\]^_"
LowerPrintable == "abcdefghijklmnopqrstuvwxyz{|}~"

HexDigits == "0123456789abcdef"
UpperHexDigits == "0123456789ABCDEF"
IsHexDigit(c) ==
    c # "" /\ \E d \in 1..16 : Char(HexDigits, d) = c \/ Char(UpperHexDigits, d) = c
HexValue(c) ==
    (CHOOSE d \in 1..16 : Char(HexDigits, d) = c \/ Char(UpperHexDigits, d) = c) - 1

\* The character with the code point `code`, or "" when the strings of the
\* model have no such character.
CodePoint(code) ==
    CASE code = 9 -> "\t"
      [] code = 10 -> "\n"
      [] code = 12 -> "\f"
      [] code = 13 -> "\r"
      [] code >= 32 /\ code <= 95 -> Char(Printable, code - 31)
      [] code >= 97 /\ code <= 126 -> Char(LowerPrintable, code - 96)
      [] OTHER -> ""

\* The code point the four hexadecimal digits denote.
HexCode(hex) ==
    4096 * HexValue(Char(hex, 1)) + 256 * HexValue(Char(hex, 2))
        + 16 * HexValue(Char(hex, 3)) + HexValue(Char(hex, 4))
IsHexCode(hex) == Len(hex) = 4 /\ \A j \in 1..4 : IsHexDigit(Char(hex, j))

\* The rest of a string whose opening quote has been read: the characters
\* up to the closing quote, with the escapes replaced.
RECURSIVE ParseString(_, _, _, _)
RECURSIVE ParseEscape(_, _, _, _, _)
ParseEscape(text, i, read, known, escaped) ==
    CASE escaped \in {"\"", "\\", "/"} -> ParseString(text, i + 2, read \o escaped, known)
      [] escaped = "n" -> ParseString(text, i + 2, read \o "\n", known)
      [] escaped = "t" -> ParseString(text, i + 2, read \o "\t", known)
      [] escaped = "r" -> ParseString(text, i + 2, read \o "\r", known)
      [] escaped = "f" -> ParseString(text, i + 2, read \o "\f", known)
      [] escaped = "b" -> ParseString(text, i + 2, read, FALSE)
      [] escaped = "u" /\ IsHexCode(Slice(text, i + 2, i + 5)) ->
            ParseString(text, i + 6, read \o CodePoint(HexCode(Slice(text, i + 2, i + 5))),
                        known /\ CodePoint(HexCode(Slice(text, i + 2, i + 5))) # "")
      [] OTHER -> NoParse
ParseString(text, i, read, known) ==
    CASE Char(text, i) \in {"", "\t", "\n", "\f", "\r"} -> NoParse
      [] Char(text, i) = "\"" -> Parsed(JStr(read), i + 1, known)
      [] Char(text, i) = "\\" -> ParseEscape(text, i, read, known, Char(text, i + 1))
      [] OTHER -> ParseString(text, i + 1, read \o Char(text, i), known)

\* Whether a property name is an array index: the canonical text of an
\* integer from 0 to 2^32 - 2.
IsIndex(name) ==
    /\ Len(name) >= 1 /\ Len(name) <= 10
    /\ \A i \in 1..Len(name) : IsDigit(Char(name, i))
    /\ Len(name) = 1 \/ Char(name, 1) # "0"
    /\ Len(name) = 10 =>
          \/ ParseDigits(Slice(name, 1, 5)) < 42949
          \/ /\ ParseDigits(Slice(name, 1, 5)) = 42949
             /\ ParseDigits(Slice(name, 6, 10)) <= 67294

\* Whether the array index a comes no later than the array index b.
IndexOrder(a, b) ==
    \/ Len(a[1]) < Len(b[1])
    \/ /\ Len(a[1]) = Len(b[1])
       /\ \/ ParseDigits(Slice(a[1], 1, 5)) < ParseDigits(Slice(b[1], 1, 5))
          \/ /\ ParseDigits(Slice(a[1], 1, 5)) = ParseDigits(Slice(b[1], 1, 5))
             /\ ParseDigits(Slice(a[1], 6, 10))
                    <= ParseDigits(Slice(b[1], 6, 10))

\* The members after the property `name` has been given the value `val`:
\* a property that exists keeps its place.
DefineProperty(members, name, val) ==
    IF \E j \in DOMAIN members : members[j][1] = name
    THEN [j \in DOMAIN members |->
             IF members[j][1] = name THEN <<name, val>> ELSE members[j]]
    ELSE Append(members, <<name, val>>)

\* The members in property order.
PropertyOrder(members) ==
    SortSeq(SelectSeq(members, LAMBDA member : IsIndex(member[1])), IndexOrder)
        \o SelectSeq(members, LAMBDA member : ~IsIndex(member[1]))

\* A value at index i of the text; the elements of an array after its
\* bracket or a comma; the members of an object after its brace or a comma.
RECURSIVE ParseValue(_, _)
RECURSIVE ParseElements(_, _, _, _)
RECURSIVE ParseMembers(_, _, _, _)

\* After an element: a comma and more elements, or the closing bracket.
AfterElement(text, i, elements, known) ==
    IF Char(text, i) = "," THEN ParseElements(text, i + 1, elements, known)
    ELSE IF Char(text, i) = "]" THEN Parsed(JArr(elements), i + 1, known)
    ELSE NoParse

WithElement(text, elements, known, element) ==
    IF element.ok
    THEN AfterElement(text, SkipSpace(text, element.next), Append(elements, element.val),
                      known /\ element.known)
    ELSE NoParse

ParseElements(text, i, elements, known) ==
    WithElement(text, elements, known, ParseValue(text, SkipSpace(text, i)))

\* After a member: a comma and more members, or the closing brace.
AfterMember(text, i, members, known) ==
    IF Char(text, i) = "," THEN ParseMembers(text, i + 1, members, known)
    ELSE IF Char(text, i) = "}" THEN Parsed(JObject(PropertyOrder(members)), i + 1, known)
    ELSE NoParse

WithMember(text, members, known, name, member) ==
    IF member.ok
    THEN AfterMember(text, SkipSpace(text, member.next),
                     DefineProperty(members, name.val.v, member.val),
                     known /\ name.known /\ member.known)
    ELSE NoParse

\* After the name of a member: a colon and the value.
WithName(text, i, members, known, name) ==
    IF name.ok /\ Char(text, i) = ":"
    THEN WithMember(text, members, known, name, ParseValue(text, SkipSpace(text, i + 1)))
    ELSE NoParse

AfterName(text, members, known, name) ==
    IF name.ok THEN WithName(text, SkipSpace(text, name.next), members, known, name)
    ELSE NoParse

MemberAt(text, i, members, known) ==
    IF Char(text, i) = "\""
    THEN AfterName(text, members, known, ParseString(text, i + 1, "", TRUE))
    ELSE NoParse

ParseMembers(text, i, members, known) == MemberAt(text, SkipSpace(text, i), members, known)

\* What follows an opening bracket or brace: the closing one at once, or
\* elements or members.
Bracketed(text, i, isObject) ==
    IF isObject
    THEN (IF Char(text, i) = "}" THEN Parsed(JObject(<<>>), i + 1, TRUE)
          ELSE ParseMembers(text, i, <<>>, TRUE))
    ELSE (IF Char(text, i) = "]" THEN Parsed(JArr(<<>>), i + 1, TRUE)
          ELSE ParseElements(text, i, <<>>, TRUE))

ParseValue(text, i) ==
    CASE Slice(text, i, i + 3) = "null" -> Parsed(JNull, i + 4, TRUE)
      [] Slice(text, i, i + 3) = "true" -> Parsed(True, i + 4, TRUE)
      [] Slice(text, i, i + 4) = "false" -> Parsed(False, i + 5, TRUE)
      [] Char(text, i) = "-" \/ IsDigit(Char(text, i)) -> ParseNumber(text, i)
      [] Char(text, i) = "\"" -> ParseString(text, i + 1, "", TRUE)
      [] Char(text, i) = "[" -> Bracketed(text, SkipSpace(text, i + 1), FALSE)
      [] Char(text, i) = "{" -> Bracketed(text, SkipSpace(text, i + 1), TRUE)
      [] OTHER -> NoParse

\* The text as a whole: one value, white space around it and nothing else.
WholeText(text, parsed) ==
    IF ~parsed.ok \/ SkipSpace(text, parsed.next) # Len(text) + 1 THEN SyntaxError
    ELSE IF ~parsed.known THEN Unmodelled
    ELSE parsed.val

\* The value the text denotes: SyntaxError for a text that is no JSON text.
ParseText(text) == WholeText(text, ParseValue(text, SkipSpace(text, 1)))

\* What ParseText gives on the texts of the values of the model, computed
\* once.
ParsedTexts == [text \in {Stringify(val) : val \in JsonValues} |-> ParseText(text)]

\* JSON.parse(text)
Parse(text) == IF text \in DOMAIN ParsedTexts THEN ParsedTexts[text] ELSE ParseText(text)

(***************************************************************************)
(* StorageManager over window.localStorage                                 *)
(***************************************************************************)
prefix == "kurdish_city_"

\* The logical keys the model's callers use, and the keys of other scripts.
StorageKeys == {"theme", "k"}
ForeignKeys == {"control", "kurdish_city", "my_kurdish_city_k"}

\* The defaults passed to get() in the model.
Defaults == {JNull, JStr("fallback")}

\* key.startsWith(this.prefix)
StartsWith(key, pre) == Len(key) >= Len(pre) /\ SubSeq(key, 1, Len(pre)) = pre

\* localStorage.getItem / setItem / removeItem on a store that does not raise.
HasItem(store, key) == key \in DOMAIN store
SetItem(store, key, item) ==
    [x \in DOMAIN store \cup {key} |-> IF x = key THEN item ELSE store[x]]
RemoveItem(store, key) == [x \in DOMAIN store \ {key} |-> store[x]]

\* The text set() stores for a value.
SerializeStringsRaw(val) == IF val.t = "str" THEN val.v ELSE Stringify(val)
Serialize(val) == Stringify(val)

\* The keys clear() removes.
KeysToClearAll(store) == DOMAIN store
KeysToClear(store) == {key \in DOMAIN store : StartsWith(key, prefix)}

\* What set(), remove() and clear() return: false from the catch block.
Succeeded(fault) == IF fault THEN False ELSE True

\* get(key, defaultValue): `fault` says that the store raises on this access.
GetResult(store, key, defaultValue, fault) ==
    IF fault THEN defaultValue
    ELSE IF ~HasItem(store, prefix \o key) \/ store[prefix \o key] = "" THEN defaultValue
    ELSE IF Parse(store[prefix \o key]) = SyntaxError THEN defaultValue
    ELSE Parse(store[prefix \o key])

\* Whether get(key, .) enters its catch block: the store raised, or
\* JSON.parse threw on the item.
GetCaught(store, key, fault) ==
    \/ fault
    \/ /\ HasItem(store, prefix \o key)
       /\ store[prefix \o key] # ""
       /\ Parse(store[prefix \o key]) = SyntaxError

\* The store after set(key, value).
SetResult(store, key, val, fault) ==
    IF fault THEN store ELSE SetItem(store, prefix \o key, Serialize(val))

\* The stores a page of the model starts with: another script's entries,
\* and under the prefix what an earlier visit left, or text that is no JSON.
InitialStores ==
    LET foreign == [key \in ForeignKeys |-> "1"]
    IN  { foreign,
          SetItem(foreign, prefix \o "theme", Stringify(JStr("light"))),
          SetItem(SetItem(foreign, prefix \o "theme", Stringify(JStr("dark"))),
                  prefix \o "k", "{oops") }

\* What earlier visits stored under a key, if it is the text of a value.
StoredValue(store, key) ==
    IF HasItem(store, prefix \o key) /\ Parse(store[prefix \o key]) # SyntaxError
    THEN Parse(store[prefix \o key]) ELSE Unset

\* Whether an exception of the store leaves the method: every access to the
\* store is inside the method's try block, whose catch block returns.
Propagates(fault) == FALSE

NoOp == [op |-> "none", key |-> "", val |-> Unset, dflt |-> Unset,
         fault |-> FALSE, result |-> Unset, raised |-> FALSE]

StorageInit(stores) ==
    /\ localStorage \in stores
    /\ lastOp = NoOp
    /\ setStored = [key \in StorageKeys |-> StoredValue(localStorage, key)]

\* set(key, value)
StorageSet(key, val, fault) ==
    /\ localStorage' = SetResult(localStorage, key, val, fault)
    /\ lastOp' = [NoOp EXCEPT !.op = "set", !.key = key, !.val = val,
                              !.fault = fault, !.result = Succeeded(fault),
                              !.raised = Propagates(fault)]
    /\ setStored' = IF fault THEN setStored ELSE [setStored EXCEPT ![key] = val]
    /\ Diagnose(IF fault THEN <<"StorageManager.set">> ELSE <<>>,
                IF fault THEN <<ConsoleEntry("warn", "StorageManager.set")>> ELSE <<>>)
    /\ Frame({"storage", "console"})

\* get(key, defaultValue)
StorageGet(key, defaultValue, fault) ==
    /\ lastOp' = [NoOp EXCEPT !.op = "get", !.key = key, !.dflt = defaultValue,
                              !.fault = fault, !.raised = Propagates(fault),
                              !.result = GetResult(localStorage, key, defaultValue, fault)]
    /\ UNCHANGED <<localStorage, setStored>>
    /\ IF GetCaught(localStorage, key, fault)
       THEN Diagnose(<<"StorageManager.get">>, <<ConsoleEntry("warn", "StorageManager.get")>>)
       ELSE Diagnose(<<>>, <<>>)
    /\ Frame({"storage", "console"})

\* remove(key)
StorageRemove(key, fault) ==
    /\ localStorage' = IF fault THEN localStorage
                       ELSE RemoveItem(localStorage, prefix \o key)
    /\ lastOp' = [NoOp EXCEPT !.op = "remove", !.key = key, !.fault = fault,
                              !.result = Succeeded(fault)]
    /\ setStored' = IF fault THEN setStored ELSE [setStored EXCEPT ![key] = Unset]
    /\ Diagnose(IF fault THEN <<"StorageManager.remove">> ELSE <<>>,
                IF fault THEN <<ConsoleEntry("warn", "StorageManager.remove")>> ELSE <<>>)
    /\ Frame({"storage", "console"})

\* The keys clear() has removed when it returns.  It removes the keys one by
\* one, in the order Object.keys(localStorage) lists them, which is up to
\* the browser: when the store raises, any of the keys may be gone already,
\* but not all of them, since the call that raised removed nothing.
Removals(store, fault) ==
    IF fault
    THEN {gone \in SUBSET KeysToClear(store) : gone # KeysToClear(store) \/ gone = {}}
    ELSE {KeysToClear(store)}

\* What is known of a key's value after a clear() that returned false.
Maybe(val) == IF val.t \in {"unset", "maybe"} THEN val ELSE [t |-> "maybe", v |-> val]

\* clear()
StorageClear(fault) ==
    /\ \E gone \in Removals(localStorage, fault) :
          localStorage' = [x \in DOMAIN localStorage \ gone |-> localStorage[x]]
    /\ lastOp' = [NoOp EXCEPT !.op = "clear", !.fault = fault,
                              !.val = JNum(Cardinality(DOMAIN localStorage)
                                           - Cardinality(DOMAIN localStorage')),
                              !.result = Succeeded(fault),
                              !.raised = Propagates(fault)]
    /\ setStored' = IF fault THEN [key \in StorageKeys |-> Maybe(setStored[key])]
                    ELSE [key \in StorageKeys |-> Unset]
    /\ Diagnose(IF fault THEN <<"StorageManager.clear">> ELSE <<>>,
                IF fault THEN <<ConsoleEntry("warn", "StorageManager.clear")>> ELSE <<>>)
    /\ Frame({"storage", "console"})

(***************************************************************************)
(* ThemeManager                                                            *)
(***************************************************************************)
\* Whether String(value) throws a TypeError.  An object is converted by its
\* method toString, or else by valueOf.  A member named 'toString' of a
\* parsed object hides the inherited method and is no function; valueOf,
\* inherited or hidden by a member, gives no primitive value either.  An
\* array converts each of its elements that is not null.
RECURSIVE ToStringThrows(_)
ToStringThrows(val) ==
    CASE val.t = "obj" -> \E i \in DOMAIN val.v : val.v[i][1] = "toString"
      [] val.t = "arr" -> \E i \in DOMAIN val.v : ToStringThrows(val.v[i])
      [] OTHER -> FALSE

\* The text of a value whose conversion does not throw: a string is taken
\* as it is, an object gives '[object Object]', an array gives the texts of
\* its elements between commas (nothing for null), and null, a boolean or
\* a number gives the text JSON.stringify gives.
RECURSIVE ValueText(_)
RECURSIVE JoinTexts(_)
JoinTexts(elements) ==
    IF elements = <<>> THEN ""
    ELSE (IF elements[1].t = "null" THEN "" ELSE ValueText(elements[1]))
         \o (IF Len(elements) = 1 THEN "" ELSE "," \o JoinTexts(Tail(elements)))
ValueText(val) ==
    CASE val.t = "str" -> val.v
      [] val.t = "obj" -> "[object Object]"
      [] val.t = "arr" -> JoinTexts(val.v)
      [] OTHER -> Stringify(val)

\* What the conversion of a value to a string raises when it throws.
TypeError == [t |-> "TypeError", v |-> 0]

\* String(value), as setAttribute converts its argument: the text, or the
\* TypeError raised.
AttributeText(val) == IF ToStringThrows(val) THEN TypeError ELSE ValueText(val)

\* The document element without the attribute data-theme.
NoAttribute == "(no attribute)"

\* new ThemeManager(): reads the stored theme (default 'dark') and applies
\* it; when the conversion of the stored value throws, the constructor
\* throws and no attribute is set.
ThemeInit ==
    /\ \E fault \in BOOLEAN :
          currentTheme = GetResult(localStorage, "theme", JStr("dark"), fault)
    /\ dataTheme = IF ToStringThrows(currentTheme) THEN NoAttribute
                   ELSE AttributeText(currentTheme)
    /\ themeTrail = <<currentTheme>>

\* this.currentTheme === 'dark' ? 'light' : 'dark'
FlippedStuck(theme) == JStr("light")
Flipped(theme) == IF theme = JStr("dark") THEN JStr("light") ELSE JStr("dark")

\* toggleTheme(): `fault` says that the store raises when set() writes.
\* There is a ThemeManager to toggle only when its constructor applied a
\* theme.
ToggleTheme(fault) ==
    LET theme == Flipped(currentTheme)
    IN  /\ Len(themeTrail) <= MaxToggles
        /\ dataTheme # NoAttribute
        /\ currentTheme' = theme
        /\ localStorage' = SetResult(localStorage, "theme", theme, fault)
        /\ setStored' = IF fault THEN setStored ELSE [setStored EXCEPT !["theme"] = theme]
        /\ dataTheme' = AttributeText(theme)
        /\ themeTrail' = Append(themeTrail, theme)
        /\ lastOp' = [NoOp EXCEPT !.op = "toggle", !.key = "theme", !.val = theme,
                                  !.fault = fault, !.result = Succeeded(fault),
                                  !.raised = Propagates(fault)]
        /\ Notify(ShowNotification(notifications, "theme " \o theme.v, "success"))
        /\ timers' = SetTimeouts(timers, BannerTimers(notifications, notifications'))
        /\ nextTimerId' = nextTimerId + 1
        /\ UNCHANGED now
        /\ Diagnose(IF fault THEN <<"StorageManager.set">> ELSE <<>>,
                    IF fault THEN <<ConsoleEntry("warn", "StorageManager.set")>> ELSE <<>>)
        /\ Frame({"clock", "storage", "theme", "notifications", "console"})

ThemeTick ==
    /\ \/ Tick(bannerDuration, MaxThemeClock)
       \/ TickToTimer(MaxThemeClock)
    /\ Frame({"clock"})

(***************************************************************************)
(* connectToServer() and copyServerIP()                                    *)
(* Both read the global `event` for the control that triggered them.  A    *)
(* handler runs to completion; the continuation of copyServerIP after its  *)
(* `await` is a microtask, which runs before any other task.               *)
(***************************************************************************)
serverIP == "kurdish.city:30120"
restoreDelay == 2000     \* connectToServer: delay of the restore and of the copy
feedbackDelay == 2000    \* copyServerIP: how long the feedback stays

\* The controls of the page and their markup; NoTarget: `event` is undefined.
Controls == {"connectBtn", "copyBtn"}
NoTarget == "undefined"
InitialText == [c \in Controls |-> IF c = "connectBtn" THEN "(pad) connect" ELSE "(clip) copy IP"]
ConnectingText == "(arrows) connecting..."
CopiedText == "(check) copied!"
CopiedBackground == "linear-gradient(45deg, #4ecdc4, #45b7d1)"

\* navigator.clipboard.writeText(): its promise is fulfilled by the time the
\* caller's task ends ("settled"), settles in a later task ("later"), or
\* navigator.clipboard is undefined ("unavailable").
ClipboardOutcomes == {"settled", "later", "unavailable"}
\* document.execCommand('copy'): copies, returns false, or throws.
ExecOutcomes == {"copied", "refused", "throws"}

\* The browsers of the model: execCommand is reached only when the clipboard
\* API is missing or refuses the write.
Browsers ==
    {[api |-> "settled", writes |-> TRUE, exec |-> "copied"],
     [api |-> "later", writes |-> TRUE, exec |-> "copied"]}
    \cup [api : {"later"}, writes : {FALSE}, exec : ExecOutcomes]
    \cup [api : {"unavailable"}, writes : {FALSE}, exec : ExecOutcomes]

BrowserInit(browsers) ==
    \E b \in browsers :
        /\ clipboardApi = b.api
        /\ clipboardWrites = b.writes
        /\ execCopy = b.exec

ConnectInit ==
    /\ btnText = InitialText
    /\ btnDisabled = [c \in Controls |-> FALSE]
    /\ btnBackground = [c \in Controls |-> ""]
    /\ scopes = <<>>
    /\ jobs = <<>>
    /\ awaiting = <<>>
    /\ textAreas = 0
    /\ copies = 0
    /\ copyDone = <<>>
    /\ clipboard = ""
    /\ connects = 0
    /\ connLog = <<>>
    /\ copyLog = <<>>

\* The catch block of copyServerIP: the textarea fallback.
FallbackClipboard(text, exec) == IF exec = "copied" THEN serverIP ELSE text
FallbackNotification(shown, exec) ==
    IF exec = "throws"
    THEN ShowNotification(shown, "server address: " \o serverIP, "info")
    ELSE ShowNotification(shown, "(check) server address copied!", "success")

\* The catch block appends a textarea to document.body and removes it.
AppendChild(n) == n + 1
RemoveChild(n) == n - 1
FallbackTextAreas(n) == RemoveChild(AppendChild(n))

\* What a finished copyServerIP invocation is recorded as: whether the
\* clipboard API wrote, what execCommand did ("none": not called), the
\* notification it showed, the textareas it left, and its control afterwards.
CopyOutcome(target, api, exec, shown, areas, text, background) ==
    [target |-> target, api |-> api, exec |-> exec,
     notified |-> shown[Len(shown)], areas |-> areas,
     text |-> IF target = NoTarget THEN NoTarget ELSE text[target],
     background |-> IF target = NoTarget THEN NoTarget ELSE background[target]]

\* The catch blocks copyServerIP enters when the clipboard write failed.
CopyCaught(failed, exec) ==
    IF failed
    THEN <<"copyServerIP">> \o (IF exec = "throws" THEN <<"copyServerIP.fallback">>
                                                   ELSE <<>>)
    ELSE <<>>

\* What those catch blocks write to the console: they make no console call.
CopyLogged(failed, exec) == <<>>

\* copyServerIP() up to its `await`, called while `target` is the target of
\* the event being dispatched (NoTarget: no event is being dispatched) and
\* the controls show `labels`.  The result is <<jobs, awaiting, clipboard,
\* notifications, textAreas, copyDone>>.
CopyCall(target, clip, exec, queue, pending, text, shown, labels) ==
    CASE clip = "unavailable" ->
            <<queue, pending, FallbackClipboard(text, exec),
              FallbackNotification(shown, exec), FallbackTextAreas(textAreas),
              Append(copyDone,
                     CopyOutcome(target, FALSE, exec, FallbackNotification(shown, exec),
                                 FallbackTextAreas(textAreas), labels, btnBackground))>>
      [] clip = "settled" ->
            <<Append(queue, [button |-> target]), pending, serverIP, shown,
              textAreas, copyDone>>
      [] clip = "later" ->
            <<queue, Append(pending, target), text, shown, textAreas, copyDone>>

\* connectToServer(), invoked while `target` is the target of the event
\* being dispatched; `opens`: window.open returns rather than throws.
ConnectToServer(target, opens, clip, exec) ==
    LET captured == target # NoTarget
        scope == [fn |-> "connect", button |-> target,
                  originalText |-> IF captured THEN btnText[target] ELSE NoTarget,
                  originalBg |-> "", at |-> now,
                  shownText |-> IF captured THEN btnText'[target] ELSE NoTarget,
                  shownDisabled |-> IF captured THEN btnDisabled'[target] ELSE FALSE]
        copied == CopyCall(target, clip, exec, jobs, awaiting, clipboard,
                           ShowNotification(notifications,
                                            "connection error! IP copied.", "error"),
                           btnText')
        shown == IF opens
                 THEN ShowNotification(notifications, "connecting to server...", "info")
                 ELSE copied[4]
        requests == BannerTimers(notifications, shown)
                        \o (IF opens
                            THEN <<TimerRequest("copy", connects + 1, restoreDelay)>>
                            ELSE <<>>)
                        \o (IF captured
                            THEN <<TimerRequest("restore", Len(scopes) + 1, restoreDelay)>>
                            ELSE <<>>)
    IN  /\ jobs = <<>>
        /\ connects < MaxConnects
        /\ connects' = connects + 1
        /\ connLog' = Append(connLog, [at |-> now, opened |-> opens, target |-> target])
        /\ copyLog' = IF opens THEN copyLog
                       ELSE Append(copyLog, [connect |-> connects + 1, at |-> now,
                                             via |-> "catch"])
        /\ btnText' = IF captured THEN [btnText EXCEPT ![target] = ConnectingText] ELSE btnText
        /\ btnDisabled' = IF captured THEN [btnDisabled EXCEPT ![target] = TRUE] ELSE btnDisabled
        /\ IF opens
              THEN UNCHANGED <<jobs, awaiting, clipboard, textAreas, copyDone>>
              ELSE /\ jobs' = copied[1]
                   /\ awaiting' = copied[2]
                   /\ clipboard' = copied[3]
                   /\ textAreas' = copied[5]
                   /\ copyDone' = copied[6]
        /\ Notify(shown)
        /\ scopes' = IF captured THEN Append(scopes, scope) ELSE scopes
        /\ timers' = SetTimeouts(timers, requests)
        /\ nextTimerId' = nextTimerId + Len(requests)
        /\ IF opens
              THEN Diagnose(<<>>, <<>>)
              ELSE Diagnose(<<"connectToServer">> \o CopyCaught(clip = "unavailable", exec),
                            <<ConsoleEntry("error", "connectToServer")>>
                                \o CopyLogged(clip = "unavailable", exec))
        /\ UNCHANGED <<now, btnBackground, copies>>
        /\ Frame({"clock", "connect", "notifications", "console"})

\* The timer of connectToServer's try block runs: copyServerIP(), with no
\* event being dispatched.
CopyTimerSkipsCopy(clip, exec) ==
    \E t \in timers :
        /\ jobs = <<>>
        /\ IsNextTimer(t)
        /\ t.kind = "copy"
        /\ timers' = timers \ {t}
        /\ UNCHANGED <<now, nextTimerId, noteVars, connVars>>
        /\ Frame({"clock", "connect", "notifications"})

CopyTimer(clip, exec) ==
    \E t \in timers :
        LET copied == CopyCall(NoTarget, clip, exec, jobs, awaiting, clipboard,
                               notifications, btnText)
            requests == BannerTimers(notifications, copied[4])
        IN  /\ jobs = <<>>
            /\ IsNextTimer(t)
            /\ t.kind = "copy"
            /\ timers' = SetTimeouts(timers \ {t}, requests)
            /\ nextTimerId' = nextTimerId + Len(requests)
            /\ jobs' = copied[1]
            /\ awaiting' = copied[2]
            /\ clipboard' = copied[3]
            /\ Notify(copied[4])
            /\ textAreas' = copied[5]
            /\ copyDone' = copied[6]
            /\ copyLog' = Append(copyLog, [connect |-> t.arg, at |-> now, via |-> "timer"])
            /\ Diagnose(CopyCaught(clip = "unavailable", exec),
                        CopyLogged(clip = "unavailable", exec))
            /\ UNCHANGED <<now, btnText, btnDisabled, btnBackground,
                           scopes, connects, connLog, copies>>
            /\ Frame({"clock", "connect", "notifications", "console"})

\* copyServerIP(), invoked by a click handler while `target` is the target
\* of the click.
CopyClick(target, clip, exec) ==
    LET copied == CopyCall(target, clip, exec, jobs, awaiting, clipboard,
                           notifications, btnText)
        requests == BannerTimers(notifications, copied[4])
    IN  /\ jobs = <<>>
        /\ copies < MaxCopies
        /\ copies' = copies + 1
        /\ copyLog' = Append(copyLog, [connect |-> 0, at |-> now, via |-> "click"])
        /\ jobs' = copied[1]
        /\ awaiting' = copied[2]
        /\ clipboard' = copied[3]
        /\ Notify(copied[4])
        /\ timers' = SetTimeouts(timers, requests)
        /\ nextTimerId' = nextTimerId + Len(requests)
        /\ textAreas' = copied[5]
        /\ copyDone' = copied[6]
        /\ Diagnose(CopyCaught(clip = "unavailable", exec),
                    CopyLogged(clip = "unavailable", exec))
        /\ UNCHANGED <<now, btnText, btnDisabled, btnBackground, scopes, connects, connLog>>
        /\ Frame({"clock", "connect", "notifications", "console"})

\* copyServerIP() after its `await` was fulfilled, as a microtask of the
\* task that called it: `event` is still the event of that task.
CopyResume ==
    /\ jobs # <<>>
    /\ LET button == Head(jobs).button
           captured == button # NoTarget
           scope == [fn |-> "copy", button |-> button,
                     originalText |-> btnText[button],
                     originalBg |-> btnBackground[button], at |-> now,
                     shownText |-> CopiedText, shownDisabled |-> btnDisabled[button]]
           requests == BannerTimers(notifications, notifications')
                           \o (IF captured
                               THEN <<TimerRequest("revert", Len(scopes) + 1, feedbackDelay)>>
                               ELSE <<>>)
       IN  /\ jobs' = Tail(jobs)
           /\ Notify(ShowNotification(notifications,
                                      "(check) server address copied!", "success"))
           /\ btnText' = IF captured THEN [btnText EXCEPT ![button] = CopiedText] ELSE btnText
           /\ btnBackground' = IF captured
                                  THEN [btnBackground EXCEPT ![button] = CopiedBackground]
                                  ELSE btnBackground
           /\ scopes' = IF captured THEN Append(scopes, scope) ELSE scopes
           /\ timers' = SetTimeouts(timers, requests)
           /\ nextTimerId' = nextTimerId + Len(requests)
           /\ copyDone' = Append(copyDone,
                                 CopyOutcome(button, TRUE, "none", notifications',
                                             textAreas, btnText', btnBackground'))
    /\ UNCHANGED <<now, btnDisabled, awaiting, clipboard, connects, connLog, copyLog,
                   textAreas, copies>>
    /\ Frame({"clock", "connect", "notifications"})

\* A pending clipboard write settles in a task of its own, and copyServerIP
\* continues with no event being dispatched: after its `await` when the
\* write was done, in its catch block when it was refused.
ClipboardSettle(done, exec) ==
    /\ jobs = <<>>
    /\ awaiting # <<>>
    /\ clipboard' = IF done THEN serverIP ELSE FallbackClipboard(clipboard, exec)
    /\ Notify(IF done
              THEN ShowNotification(notifications, "(check) server address copied!", "success")
              ELSE FallbackNotification(notifications, exec))
    /\ timers' = SetTimeouts(timers, BannerTimers(notifications, notifications'))
    /\ nextTimerId' = nextTimerId + 1
    /\ textAreas' = IF done THEN textAreas ELSE FallbackTextAreas(textAreas)
    /\ \E i \in DOMAIN awaiting :
          /\ awaiting' = SubSeq(awaiting, 1, i - 1) \o SubSeq(awaiting, i + 1, Len(awaiting))
          /\ copyDone' = Append(copyDone,
                                CopyOutcome(awaiting[i], done, IF done THEN "none" ELSE exec,
                                            notifications', textAreas', btnText, btnBackground))
    /\ Diagnose(CopyCaught(~done, exec), CopyLogged(~done, exec))
    /\ UNCHANGED <<now, btnText, btnDisabled, btnBackground, scopes, jobs, connects,
                   connLog, copyLog, copies>>
    /\ Frame({"clock", "connect", "notifications", "console"})

\* The timer of connectToServer's finally block runs.
RestoreTimer ==
    \E t \in timers :
        /\ jobs = <<>>
        /\ IsNextTimer(t)
        /\ t.kind = "restore"
        /\ timers' = timers \ {t}
        /\ btnText' = [btnText EXCEPT ![scopes[t.arg].button] = scopes[t.arg].originalText]
        /\ btnDisabled' = [btnDisabled EXCEPT ![scopes[t.arg].button] = FALSE]
        /\ UNCHANGED <<now, nextTimerId, btnBackground, scopes, jobs, awaiting,
                       clipboard, connects, connLog, copyLog, textAreas, copies, copyDone>>
        /\ Frame({"clock", "connect"})

\* The timer of copyServerIP's feedback runs.
RevertTimer ==
    \E t \in timers :
        /\ jobs = <<>>
        /\ IsNextTimer(t)
        /\ t.kind = "revert"
        /\ timers' = timers \ {t}
        /\ btnText' = [btnText EXCEPT ![scopes[t.arg].button] = scopes[t.arg].originalText]
        /\ btnBackground' = [btnBackground EXCEPT ![scopes[t.arg].button] = scopes[t.arg].originalBg]
        /\ UNCHANGED <<now, nextTimerId, btnDisabled, scopes, jobs, awaiting,
                       clipboard, connects, connLog, copyLog, textAreas, copies, copyDone>>
        /\ Frame({"clock", "connect"})

\* The steps by which the clock of the connect control advances.
ConnectSteps == {1000}

ConnectTick ==
    /\ jobs = <<>>
    /\ \/ \E d \in ConnectSteps : Tick(d, MaxConnectClock)
       \/ TickToTimer(MaxConnectClock)
    /\ Frame({"clock"})

\* The same for the copy control, whose feedback and banners run their course.
CopyTick ==
    /\ jobs = <<>>
    /\ \/ \E d \in ConnectSteps : Tick(d, MaxCopyClock)
       \/ TickToTimer(MaxCopyClock)
    /\ Frame({"clock"})

(***************************************************************************)
(* NavigationManager: the mobile menu and the same-page anchors, with the  *)
(* Escape key of AccessibilityManager.  The toggle and the menu exist, and *)
(* the toggle lies inside .nav-container.  A click runs the listener of    *)
(* its target and then, bubbling, the click listener of the document.      *)
(***************************************************************************)
MenuGlyph == "(menu)"
CloseGlyph == "(close)"
scrollOffset == 80

\* The same-page anchors of the page: inside .nav-container or not, and the
\* offsetTop of the element their href selects (none: no such element).
Anchors ==
    {[inNav |-> n, target |-> t] : n \in BOOLEAN, t \in {<<>>, <<0>>, <<600>>}}

NoNavEvent == [event |-> "none", wasOpen |-> FALSE, inNav |-> FALSE, found |-> FALSE]

NavInit ==
    /\ menuActive = FALSE
    /\ toggleText = MenuGlyph
    /\ scrollRequests = <<>>
    /\ navEvents = 0
    /\ lastNav = NoNavEvent

\* The document's click listener, for a click whose target is inside
\* .nav-container or not: <<active, text>> afterwards.
DocumentClick(inContainer, active, text) ==
    IF ~inContainer /\ active THEN <<FALSE, MenuGlyph>> ELSE <<active, text>>

\* A click on the toggle: classList.toggle('active'), then the glyph.
ToggleClick ==
    LET toggled == ~menuActive
        after == DocumentClick(TRUE, toggled, IF toggled THEN CloseGlyph ELSE MenuGlyph)
    IN  /\ navEvents < MaxNavEvents
        /\ navEvents' = navEvents + 1
        /\ menuActive' = after[1]
        /\ toggleText' = after[2]
        /\ lastNav' = [NoNavEvent EXCEPT !.event = "toggle", !.wasOpen = menuActive,
                                         !.inNav = TRUE]
        /\ UNCHANGED scrollRequests
        /\ Frame({"nav"})

\* A click on an element that is neither the toggle nor a same-page anchor.
PlainClick(inContainer) ==
    LET after == DocumentClick(inContainer, menuActive, toggleText)
    IN  /\ navEvents < MaxNavEvents
        /\ navEvents' = navEvents + 1
        /\ menuActive' = after[1]
        /\ toggleText' = after[2]
        /\ lastNav' = [NoNavEvent EXCEPT !.event = "click", !.wasOpen = menuActive,
                                         !.inNav = inContainer]
        /\ UNCHANGED scrollRequests
        /\ Frame({"nav"})

\* A click on a same-page anchor: its own listener, then the document's.
AnchorClick(anchor) ==
    LET found == anchor.target # <<>>
        closes == found /\ menuActive
        after == DocumentClick(anchor.inNav,
                               IF closes THEN FALSE ELSE menuActive,
                               IF closes THEN MenuGlyph ELSE toggleText)
    IN  /\ navEvents < MaxNavEvents
        /\ navEvents' = navEvents + 1
        /\ scrollRequests' = IF found THEN <<anchor.target[1] - scrollOffset>>
                             ELSE scrollRequests
        /\ menuActive' = after[1]
        /\ toggleText' = after[2]
        /\ lastNav' = [event |-> "anchor", wasOpen |-> menuActive,
                       inNav |-> anchor.inNav, found |-> found]
        /\ Frame({"nav"})

\* The Escape key is pressed: the keydown listener of AccessibilityManager.
EscapePress ==
    /\ navEvents < MaxNavEvents
    /\ navEvents' = navEvents + 1
    /\ menuActive' = FALSE
    /\ toggleText' = IF menuActive THEN MenuGlyph ELSE toggleText
    /\ lastNav' = [NoNavEvent EXCEPT !.event = "escape", !.wasOpen = menuActive]
    /\ UNCHANGED scrollRequests
    /\ Frame({"nav"})

(***************************************************************************)
(* EasterEggManager: the click counter of the logo                         *)
(***************************************************************************)
rainbowClicks == 10
rainbowDuration == 10000

LogoInit ==
    /\ clickCount = 0
    /\ logoClicks = 0
    /\ rainbowLog = <<>>
    /\ rainbowStyles = 0

\* A listener that never resets the counter.
LogoClickNoReset ==
    /\ logoClicks < MaxLogoClicks
    /\ logoClicks' = logoClicks + 1
    /\ clickCount' = clickCount + 1
    /\ IF clickCount + 1 = rainbowClicks
       THEN /\ rainbowLog' = Append(rainbowLog, logoClicks')
            /\ rainbowStyles' = rainbowStyles + 1
            /\ Notify(ShowNotification(notifications, "(rainbow mode)", "success"))
            /\ timers' = SetTimeouts(timers,
                                     BannerTimers(notifications, notifications')
                                         \o <<TimerRequest("unrainbow", 0, rainbowDuration)>>)
            /\ nextTimerId' = nextTimerId + 2
       ELSE UNCHANGED <<rainbowLog, rainbowStyles, notifications, banners, timers,
                        nextTimerId>>
    /\ UNCHANGED now
    /\ Frame({"clock", "logo", "notifications"})

\* The click listener of the logo: clickCount++, and on the tenth
\* activateRainbowMode() and clickCount = 0.
LogoClick ==
    /\ logoClicks < MaxLogoClicks
    /\ logoClicks' = logoClicks + 1
    /\ IF clickCount + 1 = rainbowClicks
       THEN /\ clickCount' = 0
            /\ rainbowLog' = Append(rainbowLog, logoClicks')
            /\ rainbowStyles' = rainbowStyles + 1
            /\ Notify(ShowNotification(notifications, "(rainbow mode)", "success"))
            /\ timers' = SetTimeouts(timers,
                                     BannerTimers(notifications, notifications')
                                         \o <<TimerRequest("unrainbow", 0, rainbowDuration)>>)
            /\ nextTimerId' = nextTimerId + 2
       ELSE /\ clickCount' = clickCount + 1
            /\ UNCHANGED <<rainbowLog, rainbowStyles, notifications, banners, timers,
                           nextTimerId>>
    /\ UNCHANGED now
    /\ Frame({"clock", "logo", "notifications"})

\* The timer of activateRainbowMode runs: style.remove().
RainbowEnds ==
    /\ \E t \in timers :
           /\ IsNextTimer(t)
           /\ t.kind = "unrainbow"
           /\ timers' = timers \ {t}
           /\ rainbowStyles' = rainbowStyles - 1
           /\ UNCHANGED <<now, nextTimerId, clickCount, logoClicks, rainbowLog>>
    /\ Frame({"clock", "logo"})

LogoTick ==
    /\ \/ Tick(rainbowDuration, MaxLogoClock)
       \/ TickToTimer(MaxLogoClock)
    /\ Frame({"clock"})

(***************************************************************************)
(* KurdishCityApp, the script's last statements, and ErrorManager.         *)
(* The constructors of the controllers are modelled by what they do to the *)
(* state of the model: the name registered, the start time LoadingManager  *)
(* takes, the first rendering and the interval of ServerStatusManager, the *)
(* console messages of EasterEggManager and AnalyticsManager, the          *)
(* listeners ErrorManager installs, and the theme ThemeManager reads and   *)
(* applies.  document.readyState is never 'loading' when the constructor   *)
(* runs, so init() does not suspend.                                       *)
(***************************************************************************)
\* The controllers in the order init() constructs them.
ManagerNames ==
    <<"loading", "storage", "navigation", "serverStatus", "animation", "easterEgg",
      "performance", "error", "theme", "analytics", "accessibility">>

\* What each constructor does to the state of the model, in the order it
\* does it.
ConstructorSteps ==
    <<<<"startTime">>, <<>>, <<>>, <<"updateDisplay", "setInterval">>, <<>>,
      <<"console.log">>, <<>>, <<"error", "unhandledrejection">>,
      <<"get", "setAttribute">>, <<"console.log">>, <<>>>>

\* The construction that throws: the k-th one, or none (0); and how many
\* of its steps it had completed when it threw.
FailPoints == 0..Len(ManagerNames)
StepsDone(failAt) == IF failAt = 0 THEN {0} ELSE 0..Len(ConstructorSteps[failAt])

Undefined == "undefined"
InitFailedText == "(init failed)"
GenericErrorText == "(something went wrong, reload)"
\* LoadingManager.startTime while no LoadingManager exists (Date.now() is
\* never negative).
NoStartTime == 0 - 1

AppInit(states) ==
    /\ readyState \in states
    /\ listening = FALSE
    /\ scriptPc = "start"
    /\ app = Undefined
    /\ windowApp = "unset"
    /\ managers = <<>>
    /\ errorListeners = {}
    /\ initOutcome = [ran |-> FALSE, failedAt |-> 0, done |-> 0, raised |-> FALSE]
    /\ lastLookup = [name |-> "", reached |-> FALSE, result |-> Undefined]
    /\ faultLog = <<>>

\* The orchestrator after the script was evaluated on a parsed document and
\* every constructor returned.
AppConstructed ==
    /\ readyState = "interactive"
    /\ listening = FALSE
    /\ scriptPc = "evaluated"
    /\ app = "orchestrator"
    /\ windowApp = "orchestrator"
    /\ managers = ManagerNames
    /\ errorListeners = {"error", "unhandledrejection"}
    /\ initOutcome = [ran |-> TRUE, failedAt |-> 0, done |-> 0, raised |-> FALSE]
    /\ lastLookup = [name |-> "", reached |-> FALSE, result |-> Undefined]
    /\ faultLog = <<>>

\* The page before any controller is constructed: the loading screen and
\* the status elements are as the markup has them, the document element has
\* no attribute data-theme, and the store holds what earlier visits left.
PageInit(configs, stores) ==
    /\ loadStartTime = NoStartTime
    /\ loadOpacity = ""
    /\ loadDisplay = ""
    /\ bodyLoaded = FALSE
    /\ hideCalls = 0
    /\ fadeLog = <<>>
    /\ serverData = InitialServerData
    /\ statusElements \in configs
    /\ display = Markup(statusElements)
    /\ pollPc = "idle"
    /\ renderedFrom = NoFields
    /\ lastTick = [at |-> 0, failed |-> FALSE, data |-> serverData, shown |-> display]
    /\ manualSince = NoFields
    /\ StorageInit(stores)
    /\ currentTheme = Unset
    /\ dataTheme = NoAttribute
    /\ themeTrail = <<>>

\* this.managers after an init() that drops what it had registered when it fails.
RegisteredOrNone(failAt) == IF failAt = 0 THEN ManagerNames ELSE <<>>

\* this.managers after init() in which construction number failAt threw.
Registered(failAt) ==
    IF failAt = 0 THEN ManagerNames ELSE SubSeq(ManagerNames, 1, failAt - 1)

IsRegistered(names, name) == \E i \in DOMAIN names : names[i] = name

\* Whether step number i of the constructor of `name` ran.
Ran(failAt, done, name, i) ==
    LET k == CHOOSE j \in DOMAIN ManagerNames : ManagerNames[j] = name
    IN  failAt = 0 \/ k < failAt \/ (k = failAt /\ i <= done)

\* init() is an async function whose body is one try/catch: a throw of a
\* constructor never leaves it, and so never leaves the constructor.
InitRaises(failAt) == FALSE

\* The constructors init() runs, up to the point where one throws: `fault`
\* says that the store raises when ThemeManager reads the theme.  When the
\* conversion of the stored theme throws, setAttribute does not return: the
\* construction of ThemeManager throws there at the latest.
Construct(failAt, done, fault) ==
    LET theme == GetResult(localStorage, "theme", JStr("dark"), fault)
        listens == {kind \in {"error", "unhandledrejection"} :
                       Ran(failAt, done, "error", IF kind = "error" THEN 1 ELSE 2)}
    IN  /\ Ran(failAt, done, "theme", 2) => ~ToStringThrows(theme)
        /\ managers' = Registered(failAt)
        /\ loadStartTime' = IF Ran(failAt, done, "loading", 1) THEN now ELSE loadStartTime
        /\ display' = IF Ran(failAt, done, "serverStatus", 1)
                      THEN UpdateDisplay(display, serverData, statusElements)
                      ELSE display
        /\ renderedFrom' = IF Ran(failAt, done, "serverStatus", 1) THEN serverData
                           ELSE renderedFrom
        /\ errorListeners' = errorListeners \cup listens
        /\ currentTheme' = IF Ran(failAt, done, "theme", 1) THEN theme ELSE currentTheme
        /\ themeTrail' = IF Ran(failAt, done, "theme", 1) THEN Append(themeTrail, theme)
                         ELSE themeTrail
        /\ lastOp' = IF Ran(failAt, done, "theme", 1)
                     THEN [NoOp EXCEPT !.op = "get", !.key = "theme",
                                       !.dflt = JStr("dark"), !.fault = fault,
                                       !.raised = Propagates(fault), !.result = theme]
                     ELSE lastOp
        /\ dataTheme' = IF Ran(failAt, done, "theme", 2) THEN AttributeText(theme)
                        ELSE dataTheme
        /\ UNCHANGED <<serverData, statusElements, pollPc, lastTick, manualSince,
                       localStorage, setStored>>

\* The interval startAutoUpdate sets, if ServerStatusManager got that far.
PollRequests(failAt, done) ==
    IF Ran(failAt, done, "serverStatus", 2)
    THEN <<TimerRequest("poll", 0, updateInterval)>> ELSE <<>>

\* Whether the get() of ThemeManager's constructor entered its catch block.
ThemeReadCaught(failAt, done, fault) ==
    Ran(failAt, done, "theme", 1) /\ GetCaught(localStorage, "theme", fault)

\* The console entries of the constructors, in the order they are written.
ConstructorLog(failAt, done, fault) ==
    (IF Ran(failAt, done, "easterEgg", 1)
     THEN <<ConsoleEntry("log", "EasterEggManager.setupConsoleMessage")>> ELSE <<>>)
    \o (IF ThemeReadCaught(failAt, done, fault)
        THEN <<ConsoleEntry("warn", "StorageManager.get")>> ELSE <<>>)
    \o (IF Ran(failAt, done, "analytics", 1)
        THEN <<ConsoleEntry("log", "AnalyticsManager.trackPageView")>> ELSE <<>>)

\* An init() that hides the loading screen whether it failed or not.
NewKurdishCityAppAlwaysHides(failAt, done, fault) ==
    LET shown == IF failAt = 0 THEN notifications
                 ELSE ShowNotification(notifications, InitFailedText, "error")
        read == IF ThemeReadCaught(failAt, done, fault)
                THEN <<"StorageManager.get">> ELSE <<>>
    IN  /\ Construct(failAt, done, fault)
        /\ Notify(shown)
        /\ timers' = SetTimeouts(timers,
                        PollRequests(failAt, done)
                        \o BannerTimers(notifications, shown)
                        \o <<TimerRequest("fade", now,
                                          RemainingTime(now - loadStartTime'))>>)
        /\ nextTimerId' = nextTimerId + Len(PollRequests(failAt, done))
                          + Len(BannerTimers(notifications, shown)) + 1
        /\ hideCalls' = hideCalls + 1
        /\ IF failAt = 0
           THEN Diagnose(read, ConstructorLog(failAt, done, fault)
                               \o <<ConsoleEntry("log", "KurdishCityApp.init")>>)
           ELSE Diagnose(read \o <<"KurdishCityApp.init">>,
                         ConstructorLog(failAt, done, fault)
                         \o <<ConsoleEntry("error", "KurdishCityApp.init")>>)
        /\ initOutcome' = [ran |-> TRUE, failedAt |-> failAt, done |-> done,
                           raised |-> InitRaises(failAt)]
        /\ UNCHANGED <<now, loadOpacity, loadDisplay, bodyLoaded, fadeLog>>

\* new KurdishCityApp(): this.managers = {}; this.init().  When every
\* constructor returned, init() calls hide() and reports success; when one
\* threw, its catch block logs the error and shows a banner.
NewKurdishCityApp(failAt, done, fault) ==
    LET shown == IF failAt = 0 THEN notifications
                 ELSE ShowNotification(notifications, InitFailedText, "error")
        read == IF ThemeReadCaught(failAt, done, fault)
                THEN <<"StorageManager.get">> ELSE <<>>
    IN  /\ Construct(failAt, done, fault)
        /\ Notify(shown)
        /\ IF failAt = 0
           THEN /\ timers' = SetTimeouts(timers,
                                PollRequests(failAt, done)
                                \o <<TimerRequest("fade", now,
                                                  RemainingTime(now - loadStartTime'))>>)
                /\ nextTimerId' = nextTimerId + Len(PollRequests(failAt, done)) + 1
                /\ hideCalls' = hideCalls + 1
                /\ Diagnose(read, ConstructorLog(failAt, done, fault)
                                  \o <<ConsoleEntry("log", "KurdishCityApp.init")>>)
           ELSE /\ timers' = SetTimeouts(timers,
                                PollRequests(failAt, done)
                                \o BannerTimers(notifications, shown))
                /\ nextTimerId' = nextTimerId + Len(PollRequests(failAt, done))
                                  + Len(BannerTimers(notifications, shown))
                /\ hideCalls' = hideCalls
                /\ Diagnose(read \o <<"KurdishCityApp.init">>,
                            ConstructorLog(failAt, done, fault)
                            \o <<ConsoleEntry("error", "KurdishCityApp.init")>>)
        /\ initOutcome' = [ran |-> TRUE, failedAt |-> failAt, done |-> done,
                           raised |-> InitRaises(failAt)]
        /\ UNCHANGED <<now, loadOpacity, loadDisplay, bodyLoaded, fadeLog>>

\* What a step that constructs no orchestrator leaves alone.
NoConstruction ==
    /\ UNCHANGED <<clockVars, loadVars, statusVars, storeVars, themeVars, noteVars,
                   managers, errorListeners, initOutcome>>
    /\ Diagnose(<<>>, <<>>)

\* The script's last statements: `let app`, the readiness test, and the
\* assignment window.KurdishCityApp = app.
EvaluateScript(failAt, done, fault) ==
    /\ scriptPc = "start"
    /\ scriptPc' = "evaluated"
    /\ IF readyState = "loading"
       THEN /\ listening' = TRUE
            /\ app' = app
            /\ NoConstruction
       ELSE /\ listening' = listening
            /\ app' = "orchestrator"
            /\ NewKurdishCityApp(failAt, done, fault)
    /\ windowApp' = app'
    /\ UNCHANGED <<readyState, lastLookup, faultLog>>
    /\ Frame({"clock", "loading", "status", "storage", "theme", "notifications",
              "app", "console"})

\* The document finishes parsing: the listeners of DOMContentLoaded run.
DOMContentLoaded(failAt, done, fault) ==
    /\ scriptPc = "evaluated"
    /\ readyState = "loading"
    /\ readyState' = "interactive"
    /\ IF listening
       THEN /\ app' = "orchestrator"
            /\ NewKurdishCityApp(failAt, done, fault)
       ELSE /\ app' = app
            /\ NoConstruction
    /\ UNCHANGED <<listening, scriptPc, windowApp, lastLookup, faultLog>>
    /\ Frame({"clock", "loading", "status", "storage", "theme", "notifications",
              "app", "console"})

\* this.managers is an object literal: under a name it does not hold itself,
\* a read yields what it inherits from Object.prototype under that name.
ObjectPrototypeNames ==
    {"constructor", "hasOwnProperty", "isPrototypeOf", "propertyIsEnumerable",
     "toLocaleString", "toString", "valueOf", "__defineGetter__", "__defineSetter__",
     "__lookupGetter__", "__lookupSetter__", "__proto__"}

\* The inherited value: a function, named after the property except for the
\* constructor, or the prototype itself.
Inherited(name) ==
    IF name = "constructor" THEN "function Object"
    ELSE IF name = "__proto__" THEN "Object.prototype"
    ELSE "function " \o name

\* getManager(name): this.managers[name], as the name of the controller
\* found.
Lookup(names, name) ==
    IF IsRegistered(names, name) THEN name
    ELSE IF name \in ObjectPrototypeNames THEN Inherited(name)
    ELSE Undefined

\* The names the host page looks up.
LookupNames == {"loading", "serverStatus", "minimap", "toString"}

\* The host page evaluates window.KurdishCityApp.getManager(name).
GetManager(name) ==
    /\ scriptPc = "evaluated"
    /\ lastLookup' = IF windowApp = "orchestrator"
                     THEN [name |-> name, reached |-> TRUE,
                           result |-> Lookup(managers, name)]
                     ELSE [name |-> name, reached |-> FALSE, result |-> "TypeError"]
    /\ UNCHANGED <<readyState, listening, scriptPc, app, windowApp, managers,
                   errorListeners, initOutcome, faultLog>>
    /\ Frame({"app"})

\* A manual update in which the values already in the record win.
UpdateServerDataKeepsOld(newData) ==
    /\ scriptPc = "evaluated"
    /\ windowApp = "orchestrator"
    /\ pollPc = "idle"
    /\ serverData' = ObjectAssign(newData, serverData)
    /\ display' = IF IsRegistered(managers, "serverStatus")
                  THEN UpdateDisplay(display, serverData', statusElements)
                  ELSE display
    /\ renderedFrom' = IF IsRegistered(managers, "serverStatus") THEN serverData'
                       ELSE renderedFrom
    /\ manualSince' = [f \in DOMAIN manualSince \cup DOMAIN newData |->
                          IF f \in DOMAIN newData THEN newData[f] ELSE manualSince[f]]
    /\ UNCHANGED <<clockVars, statusElements, pollPc, lastTick>>
    /\ Frame({"clock", "status"})

\* The host page evaluates window.KurdishCityApp.updateServerData(newData):
\* Object.assign(serverData, newData), then
\* this.managers.serverStatus?.updateDisplay(), which renders only when a
\* status controller is registered.  The method is reached only through
\* the handle, and between two tasks: no polling tick is at its await.
UpdateServerData(newData) ==
    /\ scriptPc = "evaluated"
    /\ windowApp = "orchestrator"
    /\ pollPc = "idle"
    /\ serverData' = ObjectAssign(serverData, newData)
    /\ display' = IF IsRegistered(managers, "serverStatus")
                  THEN UpdateDisplay(display, serverData', statusElements)
                  ELSE display
    /\ renderedFrom' = IF IsRegistered(managers, "serverStatus") THEN serverData'
                       ELSE renderedFrom
    /\ manualSince' = [f \in DOMAIN manualSince \cup DOMAIN newData |->
                          IF f \in DOMAIN newData THEN newData[f] ELSE manualSince[f]]
    /\ UNCHANGED <<clockVars, statusElements, pollPc, lastTick>>
    /\ Frame({"clock", "status"})

\* The parameter `type = 'info'` of showNotification and of the
\* orchestrator's method of that name.
TypeOrDefault(type) == IF type = Undefined THEN "info" ELSE type

\* What the host page passes to the public showNotification functions.
HostMessage == "(host message)"
HostTypes == {Undefined, "error"}

\* The host page evaluates window.showNotification(message, type).
WindowShowNotification(message, type) ==
    /\ scriptPc = "evaluated"
    /\ Len(notifications) < MaxHostBanners
    /\ Notify(ShowNotification(notifications, message, TypeOrDefault(type)))
    /\ timers' = SetTimeouts(timers, BannerTimers(notifications, notifications'))
    /\ nextTimerId' = nextTimerId + 1
    /\ UNCHANGED now
    /\ Frame({"clock", "notifications"})

\* The host page evaluates window.KurdishCityApp.showNotification(message, type).
AppShowNotification(message, type) ==
    /\ scriptPc = "evaluated"
    /\ Len(notifications) < MaxHostBanners
    /\ IF windowApp = "orchestrator"
       THEN /\ Notify(ShowNotification(notifications, message, TypeOrDefault(type)))
            /\ timers' = SetTimeouts(timers, BannerTimers(notifications, notifications'))
            /\ nextTimerId' = nextTimerId + 1
            /\ lastLookup' = [name |-> "showNotification", reached |-> TRUE,
                              result |-> Undefined]
       ELSE /\ UNCHANGED <<timers, nextTimerId, noteVars>>
            /\ lastLookup' = [name |-> "showNotification", reached |-> FALSE,
                              result |-> "TypeError"]
    /\ UNCHANGED <<now, readyState, listening, scriptPc, app, windowApp, managers,
                   errorListeners, initOutcome, faultLog>>
    /\ Frame({"clock", "notifications", "app"})

\* What ErrorManager's listener of `kind` does with an event.
HandleFault(kind) ==
    [kind |-> kind, installed |-> TRUE, logged |-> TRUE,
     notified |-> IF kind = "error" THEN 1 ELSE 0,
     prevented |-> (kind = "unhandledrejection")]

\* The window receives an 'error' or an 'unhandledrejection' event.
PageFault(kind) ==
    /\ scriptPc = "evaluated"
    /\ Len(faultLog) < MaxFaults
    /\ IF kind \in errorListeners
       THEN LET h == HandleFault(kind)
            IN  /\ faultLog' = Append(faultLog, h)
                /\ Notify(IF h.notified = 1
                          THEN ShowNotification(notifications, GenericErrorText, "error")
                          ELSE notifications)
                /\ Diagnose(<<>>, IF h.logged THEN <<ConsoleEntry("error", "window." \o kind)>>
                                  ELSE <<>>)
       ELSE /\ faultLog' = Append(faultLog, [kind |-> kind, installed |-> FALSE,
                                             logged |-> FALSE, notified |-> 0,
                                             prevented |-> FALSE])
            /\ UNCHANGED noteVars
            /\ Diagnose(<<>>, <<>>)
    /\ timers' = SetTimeouts(timers, BannerTimers(notifications, notifications'))
    /\ nextTimerId' = nextTimerId + Len(notifications') - Len(notifications)
    /\ UNCHANGED <<now, readyState, listening, scriptPc, app, windowApp, managers,
                   errorListeners, initOutcome, lastLookup>>
    /\ Frame({"clock", "notifications", "app", "console"})

\* The steps by which the clock of the application advances.
AppSteps == {500}

\* Time is counted from the moment the script is evaluated.
AppTick ==
    /\ scriptPc = "evaluated"
    /\ \/ \E d \in AppSteps : Tick(d, MaxAppClock)
       \/ TickToTimer(MaxAppClock)
    /\ Frame({"clock"})


\* The controllers a specification does not exercise, as constructed.
Idle(active) ==
    /\ IF "debounce" \in active THEN TRUE ELSE DebounceInit({10})
    /\ IF "konami" \in active THEN TRUE ELSE KonamiInit
    /\ IF "scroll" \in active THEN TRUE ELSE ScrollInit
    /\ IF "loading" \in active THEN TRUE ELSE LoadingInit
    /\ IF "status" \in active THEN TRUE
       ELSE StatusInit({CHOOSE els \in ElementConfigs : els.status /\ els.playerCount})
    /\ IF "storage" \in active THEN TRUE
       ELSE /\ StorageInit({[key \in ForeignKeys |-> "1"]})
            /\ currentTheme = JStr("dark")
            /\ dataTheme = "dark"
            /\ themeTrail = <<currentTheme>>
    /\ IF "notifications" \in active THEN TRUE ELSE NotificationsInit
    /\ IF "connect" \in active THEN TRUE
       ELSE ConnectInit /\ BrowserInit({[api |-> "later", writes |-> TRUE, exec |-> "copied"]})
    /\ IF "app" \in active THEN TRUE ELSE AppInit({"interactive"})
    /\ IF "nav" \in active THEN TRUE ELSE NavInit
    /\ IF "logo" \in active THEN TRUE ELSE LogoInit
    /\ caught = <<>>
    /\ consoleLog = <<>>

(***************************************************************************)
(* Specifications: one per controller.  The variables of the controllers   *)
(* a specification does not exercise keep their initial values.            *)
(***************************************************************************)
InitDebounce ==
    /\ ClockInit(0)
    /\ DebounceInit(DebounceWaits)
    /\ Idle({"debounce"})

NextDebounce ==
    \/ DebounceInvoke
    \/ DebounceLater
    \/ DebounceTick

SpecDebounce == InitDebounce /\ [][NextDebounce]_vars

InitKonami ==
    /\ ClockInit(0)
    /\ KonamiInit
    /\ NotificationsInit
    /\ Idle({"konami", "notifications"})

NextKonami ==
    \/ \E code \in KeyCodes : KonamiKeydown(code)
    \/ KonamiEnds
    \/ NotificationSlideOut
    \/ NotificationRemove
    \/ KonamiTick

SpecKonami == InitKonami /\ [][NextKonami]_vars

InitScroll ==
    /\ ClockInit(0)
    /\ ScrollInit
    /\ Idle({"scroll"})

NextScroll ==
    \/ \E scrollY \in ScrollPositions : ScrollEvent(scrollY)
    \/ ScrollHandler
    \/ ScrollHandlerNoNewMax
    \/ ScrollTick

SpecScroll == InitScroll /\ [][NextScroll]_vars

InitLoading ==
    /\ \E t0 \in LoadStartTimes : ClockInit(t0)
    /\ LoadingInit
    /\ Idle({"loading"})

NextLoading ==
    \/ LoadingHide
    \/ LoadingFade
    \/ LoadingHidden
    \/ LoadingTick

SpecLoading == InitLoading /\ [][NextLoading]_vars

\* Time passes; while a timer is pending it goes on passing beyond the
\* horizon, until that timer is due.
LoadingPass ==
    /\ \E d \in ClockSteps :
          \/ Tick(d, MaxClock)
          \/ timers # {} /\ Tick(d, MaxClock + minLoadTime + fadeDuration)
    /\ UNCHANGED loadVars
    /\ Frame({"clock", "loading"})

NextLoadingLive ==
    \/ LoadingHide
    \/ LoadingFade
    \/ LoadingHidden
    \/ LoadingPass

\* The event loop runs every timer that is due, and time does not stop
\* while a timer is pending.
SpecLoadingLive ==
    /\ InitLoading
    /\ [][NextLoadingLive]_vars
    /\ WF_vars(LoadingFade)
    /\ WF_vars(LoadingHidden)
    /\ WF_vars(LoadingPass)

InitStatus ==
    /\ now = 0
    /\ timers = {PollTimer}
    /\ nextTimerId = 1
    /\ StatusInit(ElementConfigs)
    /\ AppConstructed
    /\ Idle({"status", "app"})

NextStatus ==
    \/ \E fails \in BOOLEAN : PollFetch(fails)
    \/ PollRender
    \/ \E newData \in ManualUpdates : UpdateServerData(newData)
    \/ StatusTick

SpecStatus == InitStatus /\ [][NextStatus]_vars

\* The polling ticks alone: no manual update.
NextPoll ==
    \/ \E fails \in BOOLEAN : PollFetch(fails)
    \/ PollRender
    \/ StatusTick

SpecPoll == InitStatus /\ [][NextPoll]_vars

\* The application from the evaluation of the script on a parsed document,
\* with a host page that calls updateServerData: init() succeeds, or the
\* construction of one of these controllers throws.
ManualFailPoints == {0, 3, 4, 5}

\* Time passes to the next timer; a callback that has begun runs on before
\* the clock moves.
ManualTick ==
    /\ scriptPc = "evaluated"
    /\ pollPc = "idle"
    /\ TickToTimer(MaxManualClock)
    /\ Frame({"clock"})

InitManual ==
    /\ ClockInit(0)
    /\ AppInit({"interactive"})
    /\ PageInit(ElementConfigs, {[key \in ForeignKeys |-> "1"]})
    /\ NotificationsInit
    /\ Idle({"app", "loading", "status", "storage", "notifications"})

NextManual ==
    \/ \E failAt \in ManualFailPoints :
          \E done \in StepsDone(failAt) : EvaluateScript(failAt, done, FALSE)
    \/ \E fails \in BOOLEAN : PollFetch(fails)
    \/ PollRender
    \/ \E newData \in ManualUpdates : UpdateServerData(newData)
    \/ LoadingFade
    \/ LoadingHidden
    \/ NotificationSlideOut
    \/ NotificationRemove
    \/ ManualTick

SpecManual == InitManual /\ [][NextManual]_vars

InitStorage ==
    /\ ClockInit(0)
    /\ StorageInit(InitialStores)
    /\ ThemeInit
    /\ NotificationsInit
    /\ Idle({"storage", "notifications"})

NextStorage ==
    \/ \E key \in StorageKeys, val \in JsonValues, fault \in BOOLEAN :
          StorageSet(key, val, fault)
    \/ \E key \in StorageKeys, defaultValue \in Defaults, fault \in BOOLEAN :
          StorageGet(key, defaultValue, fault)
    \/ \E key \in StorageKeys, fault \in BOOLEAN : StorageRemove(key, fault)
    \/ \E fault \in BOOLEAN : StorageClear(fault)

SpecStorage == InitStorage /\ [][NextStorage]_vars

\* The theme toggle, with the banners it shows, on a store that other
\* callers write to as well.
NextTheme ==
    \/ \E fault \in BOOLEAN : ToggleTheme(fault)
    \/ \E fault \in BOOLEAN : StorageRemove("theme", fault)
    \/ NotificationSlideOut
    \/ NotificationRemove
    \/ ThemeTick

SpecTheme == InitStorage /\ [][NextTheme]_vars

InitConnect ==
    /\ ClockInit(0)
    /\ ConnectInit
    /\ BrowserInit(Browsers)
    /\ NotificationsInit
    /\ Idle({"connect", "notifications"})

\* The connect control up to MaxConnectClock: the banners it shows are still
\* sliding in when the clock stops (their timers are due after
\* bannerDuration); SpecCopy and SpecTheme run them.
NextConnect ==
    \/ \E target \in {"connectBtn", NoTarget}, opens \in BOOLEAN :
          ConnectToServer(target, opens, clipboardApi, execCopy)
    \/ CopyTimer(clipboardApi, execCopy)
    \/ CopyResume
    \/ ClipboardSettle(clipboardWrites, execCopy)
    \/ RestoreTimer
    \/ RevertTimer
    \/ ConnectTick

SpecConnect == InitConnect /\ [][NextConnect]_vars

NextCopy ==
    \/ \E target \in {"copyBtn", NoTarget} : CopyClick(target, clipboardApi, execCopy)
    \/ CopyResume
    \/ ClipboardSettle(clipboardWrites, execCopy)
    \/ RevertTimer
    \/ NotificationSlideOut
    \/ NotificationRemove
    \/ CopyTick

SpecCopy == InitConnect /\ [][NextCopy]_vars

\* The pages an application of the model starts on.
AppStores ==
    {store \in InitialStores :
        HasItem(store, prefix \o "theme") /\ ~HasItem(store, prefix \o "k")}

InitApp ==
    /\ ClockInit(0)
    /\ AppInit({"loading", "interactive"})
    /\ PageInit({CHOOSE els \in ElementConfigs : els.status /\ els.playerCount},
                AppStores)
    /\ NotificationsInit
    /\ Idle({"app", "loading", "status", "storage", "notifications"})

NextApp ==
    \/ \E failAt \in FailPoints, fault \in BOOLEAN :
          \E done \in StepsDone(failAt) : EvaluateScript(failAt, done, fault)
    \/ \E failAt \in FailPoints, fault \in BOOLEAN :
          \E done \in StepsDone(failAt) : DOMContentLoaded(failAt, done, fault)
    \/ \E name \in LookupNames : GetManager(name)
    \/ \E kind \in {"error", "unhandledrejection"} : PageFault(kind)
    \/ LoadingFade
    \/ LoadingHidden
    \/ NotificationSlideOut
    \/ NotificationRemove
    \/ AppTick

SpecApp == InitApp /\ [][NextApp]_vars

\* The application with a host page that calls the public showNotification
\* functions.
NextHost ==
    \/ \E failAt \in FailPoints, fault \in BOOLEAN :
          \E done \in StepsDone(failAt) : EvaluateScript(failAt, done, fault)
    \/ \E failAt \in FailPoints, fault \in BOOLEAN :
          \E done \in StepsDone(failAt) : DOMContentLoaded(failAt, done, fault)
    \/ \E type \in HostTypes : WindowShowNotification(HostMessage, type)
    \/ \E type \in HostTypes : AppShowNotification(HostMessage, type)
    \/ LoadingFade
    \/ LoadingHidden
    \/ NotificationSlideOut
    \/ NotificationRemove
    \/ AppTick

SpecHost == InitApp /\ [][NextHost]_vars

InitNav ==
    /\ ClockInit(0)
    /\ NavInit
    /\ Idle({"nav"})

NextNav ==
    \/ ToggleClick
    \/ \E inContainer \in BOOLEAN : PlainClick(inContainer)
    \/ \E anchor \in Anchors : AnchorClick(anchor)
    \/ EscapePress

SpecNav == InitNav /\ [][NextNav]_vars

InitLogo ==
    /\ ClockInit(0)
    /\ LogoInit
    /\ NotificationsInit
    /\ Idle({"logo", "notifications"})

NextLogo ==
    \/ LogoClick
    \/ RainbowEnds
    \/ NotificationSlideOut
    \/ NotificationRemove
    \/ LogoTick

SpecLogo == InitLogo /\ [][NextLogo]_vars

(***************************************************************************)
(* Properties                                                              *)
(***************************************************************************)
\* C1: every run of the debounced action directly follows the burst's last
\* invocation, `wait` after it and with its arguments; an invocation that
\* comes less than `wait` after the previous one has no run between them;
\* and the run for the last invocation is still scheduled `wait` after it.
C1_DebounceTrailingCall ==
    /\ \A j \in 1..Len(dbTrace) :
          dbTrace[j].type = "run" =>
              /\ j > 1
              /\ dbTrace[j - 1].type = "call"
              /\ dbTrace[j].arg = dbTrace[j - 1].arg
              /\ dbTrace[j].t = dbTrace[j - 1].t + dbWait
    /\ \A j \in 1..(Len(dbTrace) - 1) :
          (dbTrace[j].type = "call" /\ dbTrace[j + 1].type = "call")
              => dbTrace[j + 1].t - dbTrace[j].t <= dbWait
    /\ (dbTrace # <<>> /\ Last(dbTrace).type = "call") =>
          /\ now <= Last(dbTrace).t + dbWait
          /\ \E t \in timers :
                /\ t.kind = "later"
                /\ t.arg = Last(dbTrace).arg
                /\ t.due = Last(dbTrace).t + dbWait

\* The spec's example: calls at t=0, 5, 8 with wait=10 give one run, at t=18,
\* with the arguments of the t=8 call.
C1_Witness ==
    /\ dbWait = 10
    /\ Len(dbTrace) = 4
    /\ dbTrace[1] = [type |-> "call", t |-> 0, arg |-> 1]
    /\ dbTrace[2] = [type |-> "call", t |-> 5, arg |-> 2]
    /\ dbTrace[3] = [type |-> "call", t |-> 8, arg |-> 3]
    /\ dbTrace[4] = [type |-> "run", t |-> 18, arg |-> 3]

\* The last n elements of s (all of s when it is shorter).
LastN(s, n) == SubSeq(s, Max(1, Len(s) - n + 1), Len(s))

\* C2: a keydown activates the effect exactly when the last 10 codes received
\* since the previous activation are the target sequence; the buffer holds
\* the last (at most 10) of those codes, and is empty after an activation;
\* each activation has shown one banner.
C2_KonamiTriggerIffLastTen ==
    /\ konFired <=> (Len(konInput) >= 10 /\ LastN(konInput, 10) = targetCode)
    /\ konamiCode = (IF konFired THEN <<>> ELSE LastN(konInput, 10))
    /\ Len(konamiCode) <= 10
    /\ konFired => konTriggers >= 1
    /\ (konKeys = Len(targetCode) /\ konWrong = 0) => (konFired /\ konTriggers = 1)
    /\ (konKeys <= Len(targetCode) /\ konWrong > 0) => konTriggers = 0
    /\ Len(notifications) = konTriggers

\* The target sequence typed after an unrelated code activates the effect:
\* the body is filtered, one banner is shown, and the timers of the banner
\* and of the filter are pending.
C2_Witness ==
    /\ konFired
    /\ konTriggers = 1
    /\ Len(konInput) = 11
    /\ konInput[1] = "KeyX"
    /\ bodyFilter = KonamiFilter
    /\ Len(notifications) = 1
    /\ \E t \in timers : t.kind = "slideOut" /\ t.due = now + bannerDuration
    /\ \E t \in timers : t.kind = "unfilter" /\ t.due = now + konamiDuration

Milestones == {25, 50, 75, 100}

\* The set of the elements of a sequence.
Range(s) == {s[i] : i \in DOMAIN s}

\* C3 (as claimed): every milestone that the maximum reached scroll depth has
\* crossed has been logged, whatever the exact depth values were.
C3_MilestoneLoggedOnCrossing ==
    \A m \in Milestones : maxScrollDepth >= m => m \in Range(scrollLog)

\* C4: every fade begins at construction time + max(minLoadTime, e), where e
\* is the time from construction to the hide() that scheduled it; the fade
\* has not begun before the minimum has elapsed; and a fade still pending is
\* scheduled for that time.
C4_FadeAtFloor ==
    /\ \A i \in DOMAIN fadeLog :
          fadeLog[i].fadeAt =
              loadStartTime + Max(1000, fadeLog[i].hideAt - loadStartTime)
    /\ loadOpacity = "0" => now >= loadStartTime + 1000
    /\ \A t \in timers :
          t.kind = "fade" =>
              t.due = loadStartTime + Max(1000, t.arg - loadStartTime)
    /\ Len(fadeLog) + Cardinality({t \in timers : t.kind = "fade"}) = hideCalls

\* hide() invoked 200ms after construction fades 1000ms after construction,
\* and hide() invoked 1500ms after construction fades at once.
C4_Witness ==
    /\ Len(fadeLog) = 2
    /\ fadeLog[1].hideAt = loadStartTime + 200
    /\ fadeLog[1].fadeAt = loadStartTime + 1000
    /\ fadeLog[2].hideAt = loadStartTime + 1500
    /\ fadeLog[2].fadeAt = loadStartTime + 1500

\* C5 (as claimed): after updateDisplay() every status element of the page
\* shows the projection of the record it read: the online text and class iff
\* the status is 'online', '<playersOnline>/<maxPlayers>', '<ping>ms' iff
\* online and 'N/A' otherwise, and '<uptime>%'.
C5_RenderShowsRecord ==
    /\ statusElements.status =>
          /\ display.statusText = (IF renderedFrom.status = "online" THEN OnlineText ELSE OfflineText)
          /\ display.statusClass = (IF renderedFrom.status = "online" THEN "status-online" ELSE "status-offline")
    /\ statusElements.playerCount =>
          display.playerCount =
              ToString(renderedFrom.playersOnline) \o "/" \o ToString(renderedFrom.maxPlayers)
    /\ statusElements.ping =>
          display.ping = (IF renderedFrom.status = "online"
                             THEN ToString(renderedFrom.ping) \o "ms" ELSE "N/A")
    /\ statusElements.uptime =>
          display.uptime = TenthsToString(renderedFrom.uptime) \o "%"

\* C5 (amended): the same, provided the status badge element exists; without
\* it updateDisplay() returns at once and every element keeps its markup.
C5_RenderShowsRecordIfBadge ==
    /\ statusElements.status => C5_RenderShowsRecord
    /\ ~statusElements.status => display = Markup(statusElements)
    /\ (renderedFrom.uptime = 997 /\ statusElements.status /\ statusElements.uptime)
          => display.uptime = "99.7%"

\* An offline record rendered on a page with all four elements: 'N/A', the
\* offline class, and the player count '0/200'.
C5_Witness ==
    /\ statusElements.status /\ statusElements.playerCount /\ statusElements.ping
    /\ renderedFrom.status = "offline"
    /\ renderedFrom.uptime = 997
    /\ display.ping = "N/A"
    /\ display.statusClass = "status-offline"
    /\ display.playerCount = "0/200"
    /\ display.uptime = "99.7%"

\* C6 (as claimed): after set(k, v), a get(k, d) returns v, whatever d is.
C6_SetThenGetReturnsValue ==
    lastOp.op = "set" =>
        \A d \in Defaults : GetResult(localStorage, lastOp.key, d, FALSE) = lastOp.val

\* C6 (amended): a get(k, d) on which the store does not raise returns the
\* value of the latest set(k, v) that returned true, and returns d when no
\* set(k, .) has returned true or a remove(k) or clear() has returned true
\* since; when a clear() has returned false since, it returns that value
\* or d.
C6_RoundTripWhenStored ==
    /\ (lastOp.op = "get" /\ ~lastOp.fault) =>
          CASE setStored[lastOp.key].t = "unset" -> lastOp.result = lastOp.dflt
            [] setStored[lastOp.key].t = "maybe" ->
                  lastOp.result \in {setStored[lastOp.key].v, lastOp.dflt}
            [] OTHER -> lastOp.result = setStored[lastOp.key]
    /\ (lastOp.op = "set" /\ lastOp.result = True) =>
          /\ setStored[lastOp.key] = lastOp.val
          /\ localStorage["kurdish_city_" \o lastOp.key] # ""

\* set("k", {a:1}) has returned true and get("k", null) returns {a:1}.
C6_Witness ==
    /\ lastOp.op = "get"
    /\ lastOp.key = "k"
    /\ ~lastOp.fault
    /\ lastOp.dflt = JNull
    /\ setStored["k"] = JObj("a", JNum(1))
    /\ lastOp.result = JObj("a", JNum(1))

\* C7 (as claimed): after clear() no key beginning with 'kurdish_city_' is in
\* the store, and every other key keeps its value.
C7_ClearRemovesPrefixOnly ==
    [][lastOp'.op = "clear" =>
          /\ \A key \in DOMAIN localStorage' : ~StartsWith(key, "kurdish_city_")
          /\ \A key \in DOMAIN localStorage :
                ~StartsWith(key, "kurdish_city_") =>
                    (key \in DOMAIN localStorage' /\ localStorage'[key] = localStorage[key])
      ]_vars

\* C7 (amended): the same for every clear() that returns true; a clear() that
\* returns false adds and changes no key, and leaves at least one key with
\* the prefix if there was one.
C7_ClearRemovesPrefixOnlyWhenTrue ==
    [][lastOp'.op = "clear" =>
          /\ lastOp'.result = True =>
                \A key \in DOMAIN localStorage' : ~StartsWith(key, "kurdish_city_")
          /\ lastOp'.result = False =>
                /\ \A key \in DOMAIN localStorage' :
                      key \in DOMAIN localStorage /\ localStorage'[key] = localStorage[key]
                /\ (\E key \in DOMAIN localStorage : StartsWith(key, "kurdish_city_"))
                      => \E key \in DOMAIN localStorage' : StartsWith(key, "kurdish_city_")
          /\ \A key \in DOMAIN localStorage :
                ~StartsWith(key, "kurdish_city_") =>
                    (key \in DOMAIN localStorage' /\ localStorage'[key] = localStorage[key])
          /\ "my_kurdish_city_k" \in DOMAIN localStorage'
      ]_vars

\* A clear() that removed two keys and returned true, the other scripts' keys
\* still in the store.
C7_Witness ==
    /\ lastOp.op = "clear"
    /\ lastOp.result = True
    /\ lastOp.val = JNum(2)
    /\ DOMAIN localStorage = ForeignKeys

\* C8 (as claimed): no exception of the store leaves a method; set, remove
\* and clear return false when the store raised and true otherwise; get
\* returns the default on a missing key, on an item that does not parse and
\* when the store raised; an operation on which the store raised leaves the
\* store as it was.
C8_FailureTolerance ==
    [][LET op == lastOp'
           raw == "kurdish_city_" \o op.key
       IN  /\ ~op.raised
           /\ op.op \in {"set", "remove", "clear"} =>
                 op.result = (IF op.fault THEN False ELSE True)
           /\ (op.op = "get" /\ op.fault) => op.result = op.dflt
           /\ (op.op = "get" /\ raw \notin DOMAIN localStorage) => op.result = op.dflt
           /\ (op.op = "get" /\ raw \in DOMAIN localStorage
                 /\ Parse(localStorage[raw]) = SyntaxError) => op.result = op.dflt
           /\ op.fault => localStorage' = localStorage
      ]_vars

\* What does hold of a failed operation: nothing is raised, the result is
\* false or the default, and the store is as it was unless the operation is
\* clear(), which may have removed keys under the prefix before it failed.
FailedOperationContained ==
    [][LET op == lastOp'
       IN  op.fault =>
              /\ ~op.raised
              /\ op.op \in {"set", "remove", "clear", "toggle"} => op.result = False
              /\ op.op = "get" => op.result = op.dflt
              /\ op.op # "clear" => localStorage' = localStorage
              /\ op.op = "clear" =>
                    \A key \in DOMAIN localStorage :
                        \/ key \in DOMAIN localStorage' /\ localStorage'[key] = localStorage[key]
                        \/ StartsWith(key, prefix)
      ]_vars

\* The theme is 'dark' or 'light', and each toggle() flips it, so that two
\* toggles restore it.
ThemeFlips ==
    /\ currentTheme \in {JStr("dark"), JStr("light")}
    /\ currentTheme = themeTrail[Len(themeTrail)]
    /\ \A i \in 1..(Len(themeTrail) - 1) :
          /\ themeTrail[i] = JStr("dark") => themeTrail[i + 1] = JStr("light")
          /\ themeTrail[i] = JStr("light") => themeTrail[i + 1] = JStr("dark")
    /\ \A i \in 1..(Len(themeTrail) - 2) : themeTrail[i + 2] = themeTrail[i]

C10_ControlRestoredAfter2000 ==
    \A i \in DOMAIN scopes :
        scopes[i].fn = "connect" =>
            /\ scopes[i].shownText = ConnectingText
            /\ scopes[i].shownDisabled
            /\ (/\ now = scopes[i].at + 2000
                /\ jobs = <<>>
                /\ \A t \in timers : t.due > now
                /\ \A j \in DOMAIN scopes : scopes[j].fn = "connect" => scopes[j].at # now)
               => /\ btnText[scopes[i].button] = scopes[i].originalText
                  /\ ~btnDisabled[scopes[i].button]

\* The copyServerIP invocations made for the k-th connectToServer invocation.
CopiesFor(k) == {i \in DOMAIN copyLog : copyLog[i].connect = k}

\* C11: every connectToServer() invocation leads to exactly one copyServerIP()
\* invocation: when window.open returned, by the timer 2000ms after the
\* invocation (pending until then), and when it threw, at once, by the catch
\* block, together with one error notification; never both.
C11_OneCopyPerConnect ==
    /\ \A k \in DOMAIN connLog :
          LET pending == {t \in timers : t.kind = "copy" /\ t.arg = k}
          IN  /\ Cardinality(CopiesFor(k)) + Cardinality(pending) = 1
              /\ \A i \in CopiesFor(k) :
                    IF connLog[k].opened
                    THEN copyLog[i].via = "timer" /\ copyLog[i].at = connLog[k].at + 2000
                    ELSE copyLog[i].via = "catch" /\ copyLog[i].at = connLog[k].at
              /\ \A t \in pending :
                    /\ connLog[k].opened
                    /\ t.due = connLog[k].at + 2000
                    /\ now <= t.due
    /\ Cardinality({i \in DOMAIN notifications : notifications[i].type = "error"})
          = Cardinality({k \in DOMAIN connLog : ~connLog[k].opened})

\* One invocation whose window.open returned, copied 2000ms later, and one
\* whose window.open threw, copied at once.
C11_Witness ==
    /\ Len(connLog) = 2
    /\ connLog[1].opened /\ ~connLog[2].opened
    /\ \E i \in CopiesFor(1) : copyLog[i].at = connLog[1].at + 2000
    /\ \E i \in CopiesFor(2) : copyLog[i].at = connLog[2].at
    /\ connLog[2].at = connLog[1].at + 1000

\* C12 (as claimed): a copyServerIP() invocation shows a success notification
\* only if the clipboard API wrote or, after it failed, execCommand copied;
\* when both failed it shows the raw server address as an informational
\* notification; and in every path no temporary textarea is left.
C12_SuccessOnlyWhenCopied ==
    /\ \A i \in DOMAIN copyDone :
          /\ copyDone[i].notified.type = "success" =>
                (copyDone[i].api \/ copyDone[i].exec = "copied")
          /\ (~copyDone[i].api /\ copyDone[i].exec # "copied") =>
                copyDone[i].notified = [message |-> "server address: " \o serverIP,
                                        type |-> "info"]
          /\ copyDone[i].areas = 0
    /\ textAreas = 0

\* C13 (as claimed): after a successful copy the triggering control shows the
\* 'copied' label and background, and once every pending timer has run and
\* no copy is in progress, every control has the label and background it had
\* before the first copyServerIP() invocation.
C13_FeedbackThenRevert ==
    /\ \A i \in DOMAIN copyDone :
          (copyDone[i].api /\ copyDone[i].target # NoTarget) =>
              /\ copyDone[i].text = CopiedText
              /\ copyDone[i].background = CopiedBackground
    /\ (timers = {} /\ jobs = <<>> /\ awaiting = <<>>) =>
          \A c \in Controls : btnText[c] = InitialText[c] /\ btnBackground[c] = ""

(***************************************************************************)
(* Polling tick whose fetch fails                                          *)
(***************************************************************************)
\* The interval timers that startAutoUpdate keeps pending.
PollTimers(ts) == {t \in ts : t.kind = "poll"}

\* C14: when the fetch of a polling tick fails, the failure is caught inside
\* fetchServerData and written to the console as an error, the shared record
\* is left as it was, and once the tick has rendered, the record and every
\* status slot are what they were before the tick; the one interval timer
\* stays armed for the regular period after the failing tick (no retry).
C14_FailedTickKeepsState ==
    [][ /\ (pollPc = "idle" /\ pollPc' = "fetched" /\ lastTick'.failed)
            => /\ caught' = <<"fetchServerData">>
               /\ ConsoleEntry("error", "fetchServerData") \in Range(consoleLog')
               /\ serverData' = serverData
               /\ display' = display
               /\ PollTimers(timers') =
                      {[PollTimer EXCEPT !.due = lastTick'.at + updateInterval]}
        /\ (pollPc = "fetched" /\ pollPc' = "idle" /\ lastTick.failed)
            => /\ serverData' = lastTick.data
               /\ display' = lastTick.shown
               /\ caught' = <<>>
               /\ PollTimers(timers') =
                      {[PollTimer EXCEPT !.due = lastTick.at + updateInterval]}
      ]_vars

\* A tick failed after the record had been replaced or merged, and has rendered.
C14_Witness ==
    /\ pollPc = "idle"
    /\ lastTick.failed
    /\ lastTick.at = 2 * updateInterval
    /\ serverData # InitialServerData
    /\ statusElements.status /\ statusElements.playerCount

(***************************************************************************)
(* Manual status update                                                    *)
(***************************************************************************)
\* The slots whose element exists show the projection of the record sd.
SlotsShow(shown, sd, els) ==
    /\ els.status =>
          /\ shown.statusText = (IF sd.status = "online" THEN OnlineText ELSE OfflineText)
          /\ shown.statusClass = (IF sd.status = "online" THEN "status-online"
                                                          ELSE "status-offline")
    /\ els.playerCount =>
          shown.playerCount = ToString(sd.playersOnline) \o "/" \o ToString(sd.maxPlayers)
    /\ els.ping =>
          shown.ping = (IF sd.status = "online" THEN ToString(sd.ping) \o "ms" ELSE "N/A")
    /\ els.uptime => shown.uptime = TenthsToString(sd.uptime) \o "%"

\* updateServerData(newData) has merged: the fields of newData have their new
\* values and every other field is as it was.
Merged(before, after, newData) ==
    /\ DOMAIN after = DOMAIN before \cup DOMAIN newData
    /\ \A f \in DOMAIN newData : after[f] = newData[f]
    /\ \A f \in DOMAIN before \ DOMAIN newData : after[f] = before[f]

\* C15 (as claimed): updateServerData(newData) sets the fields present in
\* newData, leaves the others, and re-renders, so that right after the call
\* the displayed slots are the projection of the merged record.
C15_MergeThenRender ==
    [][\A newData \in ManualUpdates :
          UpdateServerData(newData)
              => /\ Merged(serverData, serverData', newData)
                 /\ SlotsShow(display', serverData', statusElements)]_vars

\* C15 (amended): the merge is as claimed; the call re-renders when a status
\* controller is registered with the orchestrator, and then the slots show
\* the merged record provided the status badge element exists; when no
\* status controller is registered or the badge does not exist, no slot
\* changes.
C15_MergeThenRenderIfRegistered ==
    [][\A newData \in ManualUpdates :
          UpdateServerData(newData)
              => LET registered == IsRegistered(managers, "serverStatus")
                 IN  /\ Merged(serverData, serverData', newData)
                     /\ registered => renderedFrom' = serverData'
                     /\ ~registered => renderedFrom' = renderedFrom
                     /\ (registered /\ statusElements.status)
                           => SlotsShow(display', serverData', statusElements)
                     /\ ~(registered /\ statusElements.status) => display' = display
      ]_vars

\* After an init() that succeeded, two manual updates on a page with all
\* four elements: the second one set only the uptime, and status and player
\* count of the first one are kept.
C15_Witness ==
    /\ app = "orchestrator"
    /\ IsRegistered(managers, "serverStatus")
    /\ statusElements.status /\ statusElements.playerCount /\ statusElements.uptime
    /\ lastTick.at = 0
    /\ serverData = [InitialServerData EXCEPT !.status = "offline", !.uptime = 1000]
    /\ display.statusClass = "status-offline"
    /\ display.uptime = "100%"
    /\ display.playerCount = "127/200"

(***************************************************************************)
(* The application handle and the orchestrator                             *)
(***************************************************************************)
\* C16 (as claimed): in both start-up orders, once the orchestrator has been
\* constructed window.KurdishCityApp refers to it, so a lookup through the
\* handle reaches getManager; and a lookup by a name under which a controller
\* was registered returns that controller.
C16_HandleRefersToOrchestrator ==
    /\ app = "orchestrator" => windowApp = "orchestrator"
    /\ (lastLookup.name # "" /\ app = "orchestrator") => lastLookup.reached
    /\ (lastLookup.reached /\ IsRegistered(managers, lastLookup.name)) =>
          lastLookup.result = lastLookup.name

(***************************************************************************)
(* Diagnostics                                                             *)
(***************************************************************************)
\* C17 (as claimed): every catch block a step enters writes at least one
\* entry to the console: for each catch site entered by the latest step there
\* is a console entry written from that site by the same step.
C17_EveryCatchLogs ==
    \A i \in DOMAIN caught :
        \E j \in DOMAIN consoleLog : consoleLog[j].site = caught[i]

(***************************************************************************)
(* Initialization failure                                                  *)
(***************************************************************************)
\* The notifications of init()'s catch block among `shown`.
InitFailureNotices(shown) ==
    {i \in DOMAIN shown : shown[i] = [message |-> InitFailedText, type |-> "error"]}

\* C18: when the construction of the k-th controller throws during init(),
\* however far that construction had got, the step that runs init() enters
\* init's catch block, writes an error to the console and shows one error
\* notification; from then on the controllers constructed before the k-th
\* are registered, in order, and no other is, what the constructors before
\* the k-th do has been done (the error listeners are installed, the theme
\* is applied, the status is rendered and polled) and what the constructors
\* after it do has not, there is exactly one initialization-failure
\* notification, and the constructor has returned the orchestrator without
\* raising.
C18_InitFailureIsContained ==
    [][LET k == initOutcome'.failedAt
       IN  (initOutcome'.ran /\ k > 0) =>
              /\ managers' = SubSeq(ManagerNames, 1, k - 1)
              /\ \A i \in DOMAIN ManagerNames :
                    IsRegistered(managers', ManagerNames[i]) <=> i < k
              /\ Cardinality(InitFailureNotices(notifications')) = 1
              /\ k > 8 => errorListeners' = {"error", "unhandledrejection"}
              /\ k < 8 => errorListeners' = {}
              /\ k > 9 => dataTheme' # NoAttribute /\ Len(themeTrail') = 1
              /\ k < 9 => dataTheme' = NoAttribute /\ themeTrail' = <<>>
              /\ k > 4 => /\ display' = UpdateDisplay(Markup(statusElements'), serverData',
                                                      statusElements')
                          /\ \E t \in timers' : t.kind = "poll"
              /\ k < 4 => /\ display' = Markup(statusElements')
                          /\ \A t \in timers' : t.kind # "poll"
              /\ k = 1 => loadStartTime' = NoStartTime \/ initOutcome'.done = 1
              /\ ~initOutcome'.raised
              /\ app' = "orchestrator"
              /\ ~initOutcome.ran =>
                    /\ Last(caught') = "KurdishCityApp.init"
                    /\ Last(consoleLog') = ConsoleEntry("error", "KurdishCityApp.init")
                    /\ k < 10 => ConsoleEntry("log", "AnalyticsManager.trackPageView")
                                     \notin Range(consoleLog')
                    /\ notifications' =
                          Append(notifications, [message |-> InitFailedText, type |-> "error"])
                    /\ Last(banners') = SlideIn
                    /\ hideCalls' = hideCalls
      ]_vars

\* The construction of the error controller threw in the listener of
\* DOMContentLoaded, 500ms after the script was evaluated, when it had
\* installed the first of its two listeners.
C18_Witness ==
    /\ initOutcome.ran
    /\ initOutcome.failedAt = 8
    /\ initOutcome.done = 1
    /\ errorListeners = {"error"}
    /\ listening
    /\ managers = <<"loading", "storage", "navigation", "serverStatus", "animation",
                    "easterEgg", "performance">>
    /\ Len(notifications) = 1
    /\ \E t \in timers : t.kind = "poll"
    /\ \E t \in timers : t.kind = "slideOut" /\ t.due = now + bannerDuration
    /\ now = 500

(***************************************************************************)
(* Page-level faults                                                       *)
(***************************************************************************)
\* C19 (as claimed): every uncaught fault and every unhandled rejection that
\* reaches the window once the error controller's listeners are installed is
\* logged and shown to the user as exactly one error notification, and a
\* rejection is kept from the browser's default reporting.
C19_FaultsLoggedAndNotified ==
    \A i \in DOMAIN faultLog :
        faultLog[i].installed =>
            /\ faultLog[i].logged
            /\ faultLog[i].notified = 1
            /\ faultLog[i].kind = "unhandledrejection" => faultLog[i].prevented

(***************************************************************************)
(* The loading screen as a state machine                                   *)
(***************************************************************************)
\* The state of the screen, from its style: 0 Showing, 1 FadingOut, 2 Hidden.
LoadState(opacity, shownAs) ==
    IF shownAs = "none" THEN 2 ELSE IF opacity = "0" THEN 1 ELSE 0

\* C20: the screen only moves Showing -> FadingOut -> Hidden, one state at a
\* time and never backwards; it becomes Hidden exactly fadeDuration (500ms)
\* after it became FadingOut; the body has the class 'loaded' exactly when
\* the screen is Hidden; and once hide() has been invoked, however often, the
\* screen eventually is Hidden.
C20_LoadingStateMachine ==
    /\ [][LET before == LoadState(loadOpacity, loadDisplay)
              after == LoadState(loadOpacity', loadDisplay')
          IN  /\ after \in {before, before + 1}
              /\ (before = 1 /\ after = 2) =>
                    /\ fadeLog' # <<>>
                    /\ now' = fadeLog'[1].fadeAt + fadeDuration
              /\ (before = 0 /\ after = 1) =>
                    /\ Len(fadeLog') = 1
                    /\ fadeLog'[1].fadeAt = now'
         ]_vars
    /\ [](bodyLoaded <=> LoadState(loadOpacity, loadDisplay) = 2)
    /\ (hideCalls > 0) ~> (LoadState(loadOpacity, loadDisplay) = 2 /\ bodyLoaded)

\* hide() was invoked twice, 500ms apart, and the screen is Hidden, 500ms
\* after the first fade began and before the second invocation's inner
\* timer has run.
C20_Witness ==
    /\ hideCalls = 2
    /\ Len(fadeLog) = 2
    /\ fadeLog[2].hideAt = fadeLog[1].hideAt + 500
    /\ LoadState(loadOpacity, loadDisplay) = 2
    /\ bodyLoaded
    /\ now = fadeLog[1].fadeAt + fadeDuration
    /\ \E t \in timers : t.kind = "hidden"

(***************************************************************************)
(* Refresh policy                                                          *)
(***************************************************************************)
\* A record as a refresh may write it.
RefreshedRecord(sd) ==
    /\ DOMAIN sd = {"status", "playersOnline", "maxPlayers", "ping", "uptime"}
    /\ sd.maxPlayers = 200
    /\ \/ /\ sd.status = "online"
          /\ sd.playersOnline \in 80..200
          /\ sd.ping \in 25..80
       \/ /\ sd.status = "offline"
          /\ sd.playersOnline = 0
          /\ sd.ping = 0

\* C21: every polling tick whose fetch succeeds leaves the shared record with
\* exactly the five fields, maxPlayers 200, and either online with 80..200
\* players and a ping of 25..80, or offline with no players and ping 0; and
\* in every state reached by polling ticks alone an offline record has no
\* players and ping 0, and the players do not exceed maxPlayers.
C21_RefreshPolicy ==
    /\ [][(pollPc = "idle" /\ pollPc' = "fetched" /\ ~lastTick'.failed)
             => RefreshedRecord(serverData')]_vars
    /\ [](serverData.status = "offline"
             => serverData.playersOnline = 0 /\ serverData.ping = 0)
    /\ [](serverData.playersOnline <= serverData.maxPlayers)

\* The second tick found a full server (200 players, ping 80) and left it
\* offline.
C21_Witness ==
    /\ lastTick.at = 2 * updateInterval
    /\ ~lastTick.failed
    /\ lastTick.data.playersOnline = 200
    /\ lastTick.data.ping = 80
    /\ pollPc = "idle"
    /\ serverData.status = "offline"
    /\ serverData.playersOnline = 0

(***************************************************************************)
(* Polling tick versus manual update                                       *)
(***************************************************************************)
\* The records a successful fetch can write.
SimulatedRecords ==
    {SimulatedData(rOnline, rPlayers, rPing, rUptime) :
        rOnline \in RandomSamples, rPlayers \in RandomSamples,
        rPing \in RandomSamples, rUptime \in RandomSamples}

\* C22: the writes take effect in the order in which they arrive, the later
\* one winning.  A successful fetch replaces the record: every field holds
\* the tick's value, whatever manual updates came before.  A manual update
\* after it sets the fields it names and no other: in every state the fields
\* named by manual updates since the latest fetch hold the latest manual
\* values, and no step but a successful fetch changes a field that no manual
\* update has named since.  Between a tick's write and its render no other
\* write arrives.
C22_LastWriteWins ==
    /\ [](\A f \in DOMAIN manualSince :
              f \in DOMAIN serverData /\ serverData[f] = manualSince[f])
    /\ [][LET tickWrites == pollPc = "idle" /\ pollPc' = "fetched" /\ ~lastTick'.failed
          IN  /\ tickWrites => (serverData' \in SimulatedRecords /\ manualSince' = NoFields)
              /\ ~tickWrites =>
                    \A f \in DOMAIN serverData' \ DOMAIN manualSince' :
                        f \in DOMAIN serverData /\ serverData'[f] = serverData[f]
              /\ pollPc = "fetched" => (pollPc' = "idle" /\ serverData' = serverData)
         ]_vars

\* A manual update set the uptime to 100; the second tick then wrote a full
\* server and the manual uptime was lost; a manual update after it set the
\* status to offline, and the tick's 200 players are still there.
C22_Witness ==
    /\ lastTick.at = 2 * updateInterval
    /\ ~lastTick.failed
    /\ lastTick.data.uptime = 1000
    /\ pollPc = "idle"
    /\ manualSince = [status |-> "offline"]
    /\ serverData.status = "offline"
    /\ serverData.playersOnline = 200
    /\ serverData.uptime # 1000

(***************************************************************************)
(* Scroll-depth milestones, once each                                      *)
(***************************************************************************)
\* C23: whatever the scroll events are, the depth going down and up again
\* included, each of the milestones 25, 50, 75 and 100 is in the log at most
\* once, the log is strictly increasing and never beyond the recorded
\* maximum, and the recorded maximum scroll depth never decreases.
C23_MilestonesOnceMaxMonotone ==
    /\ [](\A m \in {25, 50, 75, 100} :
              Cardinality({i \in DOMAIN scrollLog : scrollLog[i] = m}) <= 1)
    /\ [](\A i \in DOMAIN scrollLog :
              /\ scrollLog[i] <= maxScrollDepth
              /\ i > 1 => scrollLog[i - 1] < scrollLog[i])
    /\ [][/\ maxScrollDepth' >= maxScrollDepth
          /\ scrolledBack' => maxScrollDepth' = maxScrollDepth /\ scrollLog' = scrollLog
          /\ \/ scrollLog' = scrollLog
             \/ scrollLog' = Append(scrollLog, maxScrollDepth') /\ maxScrollDepth' > maxScrollDepth
         ]_vars

\* The page was scrolled to 50% and 75%, both logged, then on to 80% and
\* back up, and the listener ran a second after each of the four events:
\* the maximum stays at 80 and nothing more is logged.
C23_Witness ==
    /\ scrollLog = <<50, 75>>
    /\ maxScrollDepth = 80
    /\ scrolledBack
    /\ scrollEvents = 4
    /\ timers = {}

(***************************************************************************)
(* Mobile menu                                                             *)
(***************************************************************************)
\* What holds of the menu whatever the anchors are: the toggle shows the
\* 'close' glyph iff the menu is open; a click on the toggle flips the menu;
\* a click outside .nav-container and a press of Escape leave it closed.
MenuGlyphAndToggle ==
    /\ (toggleText = CloseGlyph) <=> menuActive
    /\ toggleText \in {CloseGlyph, MenuGlyph}
    /\ lastNav.event = "toggle" => menuActive = ~lastNav.wasOpen
    /\ (lastNav.event = "click" /\ ~lastNav.inNav) => ~menuActive
    /\ (lastNav.event = "click" /\ lastNav.inNav) => menuActive = lastNav.wasOpen
    /\ lastNav.event = "escape" => ~menuActive

\* C24 (as claimed): the glyph invariant, and a click on a same-page anchor
\* link leaves the menu closed.
C24_MenuGlyphAndClosing ==
    /\ MenuGlyphAndToggle
    /\ lastNav.event = "anchor" => ~menuActive

\* What the anchors do: a click on a same-page anchor link leaves the menu
\* closed when the element its href selects exists or the link lies outside
\* .nav-container; a click on a link inside .nav-container whose href
\* selects no element leaves the menu as it was, open if it was open.
MenuClosedByAnchorIfTarget ==
    /\ MenuGlyphAndToggle
    /\ (lastNav.event = "anchor" /\ (lastNav.found \/ ~lastNav.inNav)) => ~menuActive
    /\ (lastNav.event = "anchor" /\ ~lastNav.found /\ lastNav.inNav)
          => menuActive = lastNav.wasOpen

(***************************************************************************)
(* Logo click counter                                                      *)
(***************************************************************************)
\* C25: after n clicks on the logo the rainbow effect has been triggered
\* exactly floor(n / 10) times, by the 10th, 20th, 30th ... click and by no
\* other, and the counter is n mod 10, which lies in 0..9.
C25_RainbowEveryTenthClick ==
    /\ Len(rainbowLog) = logoClicks \div 10
    /\ \A i \in DOMAIN rainbowLog : rainbowLog[i] = 10 * i
    /\ clickCount = logoClicks % 10
    /\ clickCount \in 0..9

\* The 30th click has triggered the effect for the third time, and the 31st
\* has set the counter to 1.
C25_Witness ==
    /\ logoClicks = 31
    /\ rainbowLog = <<10, 20, 30>>
    /\ clickCount = 1
    /\ Len(notifications) = 3

(***************************************************************************)
(* Display consistency                                                     *)
(***************************************************************************)
\* C26 (as claimed): once the orchestrator has been constructed, on a page
\* with the status badge, in every state in which no polling tick is
\* between its write and its render, every status slot shows the projection
\* of the current shared record, and that record is the one the latest
\* render read: initially, and after any sequence of completed polling
\* ticks and manual updates.
C26_DisplayShowsCurrentRecord ==
    (app = "orchestrator" /\ statusElements.status /\ pollPc = "idle")
        => /\ SlotsShow(display, serverData, statusElements)
           /\ renderedFrom = serverData

\* C26 (amended): the same, provided a status controller is registered with
\* the orchestrator; after an init() that failed before it registered one,
\* the slots may show the markup or an older record.
C26_DisplayShowsRecordIfRegistered ==
    (/\ app = "orchestrator"
     /\ IsRegistered(managers, "serverStatus")
     /\ statusElements.status
     /\ pollPc = "idle")
        => /\ SlotsShow(display, serverData, statusElements)
           /\ renderedFrom = serverData

\* On a page with all four elements, after a tick that wrote a full server
\* and a manual update of the uptime: '200/200', '80ms' and '100%'.
C26_Witness ==
    /\ app = "orchestrator"
    /\ IsRegistered(managers, "serverStatus")
    /\ statusElements.status /\ statusElements.playerCount
    /\ statusElements.ping /\ statusElements.uptime
    /\ pollPc = "idle"
    /\ lastTick.at = updateInterval
    /\ manualSince = [uptime |-> 1000]
    /\ display.playerCount = "200/200"
    /\ display.ping = "80ms"
    /\ display.uptime = "100%"
    /\ display.statusClass = "status-online"

(***************************************************************************)
(* Loading screen and initialization                                       *)
(***************************************************************************)
\* C27: hide() has been invoked, once, exactly when init() has run and every
\* controller was constructed, all eleven being registered by then; when a
\* construction threw, hide() has not been invoked, no timer of hide() is
\* pending, and the loading screen is as it was at the start (Showing, the
\* body without the class 'loaded'), however much time has passed.
C27_HideOnlyAfterFullInit ==
    /\ hideCalls = (IF initOutcome.ran /\ initOutcome.failedAt = 0 THEN 1 ELSE 0)
    /\ hideCalls > 0 => managers = ManagerNames
    /\ (loadOpacity # "" \/ loadDisplay # "" \/ bodyLoaded) => hideCalls = 1
    /\ (initOutcome.ran /\ initOutcome.failedAt > 0) =>
          /\ hideCalls = 0
          /\ loadOpacity = "" /\ loadDisplay = "" /\ ~bodyLoaded
          /\ \A t \in timers : t.kind \notin {"fade", "hidden"}

\* The construction of the last controller threw in the listener of
\* DOMContentLoaded; at 2500ms the loading screen is still showing.
C27_Witness ==
    /\ initOutcome.ran
    /\ initOutcome.failedAt = 11
    /\ listening
    /\ Len(managers) = 10
    /\ now = 2500
    /\ hideCalls = 0
    /\ loadDisplay = ""
    /\ Len(notifications) = 1
=============================================================================
